---- MODULE Spec2Model ----
(***************************************************************************)
(* Model of the Nexus Python client (nexus_api): the request invoker       *)
(* _invoke and the export workflow, in the synchronous (NexusClient) and   *)
(* the asynchronous (NexusAsyncClient) variant; the header state of the    *)
(* client (sign_in, attach_configuration); the JSON codec (_encoder.py);   *)
(* and the load workflow.  The two export clients are driven in lock step  *)
(* by one server: every action hands the same transport outcome to both.   *)
(***************************************************************************)
EXTENDS Integers, Sequences, FiniteSets, TLC

VARIABLES
    file_format,   \* argument of export: None or a format name
    on_progress,   \* argument of export: None or a callable
    history,       \* TRUE: the frames record their trace and inputs
    sync,          \* frame of NexusClient.export
    async,         \* frame of NexusAsyncClient.export
    client,        \* a NexusClient: the headers of its http client, its token
    scopes,        \* the attach_configuration scopes of the caller, as events
    call,          \* the last request made through the client's _invoke
    codec,         \* a value handed to the JsonEncoder and what became of it
    loader,        \* frame of NexusClient.load
    data_model     \* the extensibility data model: a call of it, or its builders

vars == <<file_format, on_progress, history, sync, async,
          client, scopes, call, codec, loader, data_model>>

(***************************************************************************)
(* Bounds of the model.                                                    *)
(***************************************************************************)
MaxPolls == 3    \* status fetches of one export while the trace is recorded
MaxChunks == 2   \* chunks one artifact stream delivers

(***************************************************************************)
(* Python values.  Every value carries its type, so that `x is None` and   *)
(* `type(x) == str` are comparisons of tags.  A float is the fraction n/d. *)
(***************************************************************************)
None == [t |-> "NoneType"]
PyStr(s) == [t |-> "str", v |-> s]
PyInt(n) == [t |-> "int", v |-> n]
PyFloat(n, d) == [t |-> "float", n |-> n, d |-> d]
Callable == [t |-> "function"]

\* x < 1 for a float or an int x
LessThanOne(x) == IF x.t = "float" THEN x.n < x.d ELSE x.v < 1

\* str(x) inside an f-string
Format(x) == IF x.t = "NoneType" THEN "None"
             ELSE IF x.t = "int" THEN ToString(x.v)
             ELSE x.v

(***************************************************************************)
(* class TaskStatus(Enum)                                                  *)
(***************************************************************************)
TaskStatus ==
    { "CREATED", "WAITING_FOR_ACTIVATION", "WAITING_TO_RUN", "RUNNING",
      "WAITING_FOR_CHILDREN_TO_COMPLETE", "RAN_TO_COMPLETION", "CANCELED",
      "FAULTED" }

Member(cls, name) == [t |-> cls, v |-> name]

(***************************************************************************)
(* Exceptions.                                                             *)
(***************************************************************************)
NexusException(status_code, message) ==
    [type |-> "NexusException", status_code |-> status_code, message |-> message]
Exception(message) == [type |-> "Exception", message |-> message]
Raised(type) == [type |-> type, message |-> ""]

(***************************************************************************)
(* The codec, as far as the workflow needs it.  Names are converted on the *)
(* wire names the server sends.                                            *)
(***************************************************************************)
\* to_snake_case, tabulated on the names the server sends
wire_to_snake_case(value) ==
    CASE value = "exceptionMessage" -> "exception_message"
      [] value = "waitingForActivation" -> "waiting_for_activation"
      [] value = "waitingToRun" -> "waiting_to_run"
      [] value = "waitingForChildrenToComplete" -> "waiting_for_children_to_complete"
      [] value = "ranToCompletion" -> "ran_to_completion"
      [] OTHER -> value

\* str.upper(), tabulated on the names of the members of TaskStatus
wire_upper(value) ==
    CASE value = "created" -> "CREATED"
      [] value = "waiting_for_activation" -> "WAITING_FOR_ACTIVATION"
      [] value = "waiting_to_run" -> "WAITING_TO_RUN"
      [] value = "running" -> "RUNNING"
      [] value = "waiting_for_children_to_complete" -> "WAITING_FOR_CHILDREN_TO_COMPLETE"
      [] value = "ran_to_completion" -> "RAN_TO_COMPLETION"
      [] value = "canceled" -> "CANCELED"
      [] value = "faulted" -> "FAULTED"
      [] OTHER -> value

\* _json_encoder_options.property_name_decoder
property_name_decoder(value) ==
    IF value # "class" THEN wire_to_snake_case(value) ELSE "class_"

\* _json_encoder_options.decoders[Enum]: typeCls[to_snake_case(value).upper()]
decode_enum(members, typeCls, value) ==
    LET name == wire_upper(wire_to_snake_case(value.v))
    IN  IF name \in members THEN Member(typeCls, name) ELSE Raised("KeyError")

\* the type hints of the records the workflow decodes
JobStatus_hints ==
    [ start |-> "datetime", status |-> "TaskStatus", progress |-> "float",
      exception_message |-> "Optional[str]", result |-> "Optional[object]" ]
Job_hints ==
    [ id |-> "UUID", type |-> "str", owner |-> "str",
      parameters |-> "Optional[object]" ]

type_hints(typeCls) == IF typeCls = "JobStatus" THEN JobStatus_hints ELSE Job_hints

is_dataclass(typeCls) == typeCls \in {"JobStatus", "Job"}

\* JsonEncoder._decode for a leaf (not a record) type
decode_leaf(typeCls, data) ==
    IF data = None THEN None
    ELSE IF typeCls = "UUID" THEN [t |-> "UUID", v |-> data.v]
    ELSE IF typeCls = "TaskStatus" THEN decode_enum(TaskStatus, typeCls, data)
    ELSE data

\* JsonEncoder._decode
decode(typeCls, data) ==
    IF data = None THEN None
    ELSE IF is_dataclass(typeCls) THEN
        LET hints == type_hints(typeCls)
            wire(key) == {w \in DOMAIN data.v : property_name_decoder(w) = key}
            parameters ==
                [ key \in DOMAIN hints |->
                    IF wire(key) # {}
                    THEN decode_leaf(hints[key], data.v[CHOOSE w \in wire(key) : TRUE])
                    ELSE IF hints[key] = "int" THEN PyInt(0)
                    ELSE IF hints[key] = "float" THEN PyFloat(0, 1)
                    ELSE None ]
        IN  IF \E key \in DOMAIN hints : parameters[key] = Raised("KeyError")
            THEN Raised("KeyError")
            ELSE [t |-> typeCls, v |-> parameters]
    ELSE decode_leaf(typeCls, data)

(***************************************************************************)
(* The transport.  A send either raises (timeout, connection error) or     *)
(* yields a response: status code, body text and headers.  The text of a   *)
(* JSON document is the record [json |-> document].                        *)
(***************************************************************************)
TransportError == [kind |-> "error"]
Response(status_code, text, headers) ==
    [kind |-> "response", status_code |-> status_code, text |-> text,
     headers |-> headers]
JsonText(document) == [json |-> document]
PlainText(s) == [plain |-> s]

\* httpx.Response.is_success
is_success(response) == response.status_code >= 200 /\ response.status_code <= 299

\* (a faulty variant: the test of the body inverted, `if message:`)
IsEmptyText_inverted(text) == text # PlainText("")

\* `not message` for the text of a response
IsEmptyText(text) == text = PlainText("")

\* json.loads
json_loads(text) ==
    IF "json" \in DOMAIN text THEN text.json ELSE Raised("JSONDecodeError")

(***************************************************************************)
(* Text.  A Python str that is taken apart is the sequence of its          *)
(* characters; str.encode("utf-8") of ASCII text gives one byte for each.  *)
(***************************************************************************)
\* the characters chr(32) .. chr(95) and chr(97) .. chr(126)
Printable ==
    << " ", "!", "\"", "#", "$", "%", "&", "'", "(", ")", "*", "+",
       ",", "-", ".", "/", "0", "1", "2", "3", "4", "5", "6", "7",
       "8", "9", ":", ";", "<", "=", ">", "?", "@", "A", "B", "C",
       "D", "E", "F", "G", "H", "I", "J", "K", "L", "M", "N", "O",
       "P", "Q", "R", "S", "T", "U", "V", "W", "X", "Y", "Z", "[",
       "\\", "]", "^", "_" >>
PrintableLow ==
    << "a", "b", "c", "d", "e", "f", "g", "h", "i", "j", "k", "l",
       "m", "n", "o", "p", "q", "r", "s", "t", "u", "v", "w", "x",
       "y", "z", "{", "|", "}", "~" >>

ord(c) ==
    IF \E i \in 1..Len(Printable) : Printable[i] = c
    THEN 31 + CHOOSE i \in 1..Len(Printable) : Printable[i] = c
    ELSE 96 + CHOOSE i \in 1..Len(PrintableLow) : PrintableLow[i] = c

\* str.encode("utf-8"), on ASCII text
encode_utf8(chars) == [i \in 1..Len(chars) |-> ord(chars[i])]

\* "".join(chars): the characters as one str
RECURSIVE join(_)
join(chars) == IF chars = <<>> THEN "" ELSE chars[1] \o join(Tail(chars))

Base64Alphabet ==
    << "A", "B", "C", "D", "E", "F", "G", "H", "I", "J", "K", "L", "M", "N", "O", "P",
       "Q", "R", "S", "T", "U", "V", "W", "X", "Y", "Z", "a", "b", "c", "d", "e", "f",
       "g", "h", "i", "j", "k", "l", "m", "n", "o", "p", "q", "r", "s", "t", "u", "v",
       "w", "x", "y", "z", "0", "1", "2", "3", "4", "5", "6", "7", "8", "9", "+", "/" >>

\* base64.b64encode(bytes).decode("utf-8"): three bytes give four characters,
\* a shorter last group is padded with "="
RECURSIVE b64encode(_)
b64encode(bytes) ==
    IF bytes = <<>> THEN ""
    ELSE LET n == Len(bytes)
             b1 == bytes[1]
             b2 == IF n >= 2 THEN bytes[2] ELSE 0
             b3 == IF n >= 3 THEN bytes[3] ELSE 0
         IN  Base64Alphabet[(b1 \div 4) + 1]
                \o Base64Alphabet[(b1 % 4) * 16 + (b2 \div 16) + 1]
                \o (IF n >= 2 THEN Base64Alphabet[(b2 % 16) * 4 + (b3 \div 64) + 1]
                    ELSE "=")
                \o (IF n >= 3 THEN Base64Alphabet[(b3 % 64) + 1] ELSE "=")
                \o b64encode(SubSeq(bytes, 4, n))

\* json.dumps of a dict of str to str (a sequence of key/value pairs, in
\* insertion order; keys and values of letters and digits, which need no escape)
RECURSIVE json_dumps_items(_)
json_dumps_items(items) ==
    IF items = <<>> THEN <<>>
    ELSE <<"\"">> \o items[1][1] \o <<"\"", ":", " ", "\"">> \o items[1][2] \o <<"\"">>
            \o (IF Len(items) > 1 THEN <<",", " ">> ELSE <<>>)
            \o json_dumps_items(Tail(items))

json_dumps(configuration) == <<"{">> \o json_dumps_items(configuration) \o <<"}">>

(***************************************************************************)
(* The header state of a client: the default headers of its http client    *)
(* and its token (NexusClient.__init__, sign_in, attach_configuration,     *)
(* clear_configuration).  The asynchronous client has the same methods.    *)
(***************************************************************************)
___configuration_header_key == "Nexus-Configuration"
___authorization_header_key == "Authorization"

\* del headers[key]
del(headers, key) == [k \in DOMAIN headers \ {key} |-> headers[k]]

\* headers[key] = value
set(headers, key, value) == [k \in DOMAIN headers \cup {key} |->
                                IF k = key THEN value ELSE headers[k]]

\* NexusClient.__init__
NexusClient == [headers |-> [k \in {} |-> ""], ___token |-> None]

\* the scopes of the caller: the configurations of the scopes that are open,
\* in the order of their attach, and the last thing that happened to a scope
NoScopes == [guards |-> <<>>, latest |-> None]

\* NexusClient.sign_in
sign_in(self, access_token) ==
    LET authorization_header_value == "Bearer " \o access_token
        headers == IF ___authorization_header_key \in DOMAIN self.headers
                   THEN del(self.headers, ___authorization_header_key)
                   ELSE self.headers
    IN  [self EXCEPT
            !.headers = set(headers, ___authorization_header_key,
                            authorization_header_value),
            !.___token = PyStr(access_token)]

\* (a faulty variant: a configuration that is attached already is kept)
attach_configuration_keep(self, configuration) ==
    IF ___configuration_header_key \in DOMAIN self.headers
    THEN self
    ELSE [self EXCEPT !.headers = set(@, ___configuration_header_key,
                        b64encode(encode_utf8(json_dumps(configuration))))]

\* NexusClient.attach_configuration; the caller receives a
\* _DisposableConfiguration of the client
attach_configuration(self, configuration) ==
    LET encoded_json == b64encode(encode_utf8(json_dumps(configuration)))
        headers == IF ___configuration_header_key \in DOMAIN self.headers
                   THEN del(self.headers, ___configuration_header_key)
                   ELSE self.headers
    IN  [self EXCEPT
            !.headers = set(headers, ___configuration_header_key, encoded_json)]

\* NexusClient.clear_configuration
clear_configuration(self) ==
    IF ___configuration_header_key \in DOMAIN self.headers
    THEN [self EXCEPT !.headers = del(@, ___configuration_header_key)]
    ELSE self

\* (a faulty variant: the header cleared only when the body ends normally)
_DisposableConfiguration_exit_on_return(self, exc_type) ==
    IF exc_type = None THEN clear_configuration(self) ELSE self

\* _DisposableConfiguration.__exit__(exc_type, exc_value, exc_traceback): the
\* arguments are not looked at, and an exception of the body propagates
_DisposableConfiguration_exit(self, exc_type) == clear_configuration(self)

\* NexusClient._build_request_message: build_request merges the default
\* headers of the http client into the request
_build_request_message(self, method, relative_url, content_type_value, accept_header_value) ==
    LET merged == self.headers
        typed == IF content_type_value # None
                 THEN set(merged, "Content-Type", content_type_value.v) ELSE merged
        accepting == IF accept_header_value # None
                     THEN set(typed, "Accept", accept_header_value.v) ELSE typed
    IN  [method |-> method, url |-> relative_url, headers |-> accepting]

(***************************************************************************)
(* NexusClient._invoke.  The result tells what the call did: the number of *)
(* requests it sent, what it returned or raised, whether it closed the     *)
(* response and whether it ran the decoder.                                *)
(***************************************************************************)
Result(value, exc, closed, decoded) ==
    [sends |-> 1, value |-> value, exc |-> exc, closed |-> closed,
     decoded |-> decoded]

\* (a faulty variant: the test `if return_value is None` left out)
_invoke_returns_none(typeOfT, sent) ==
    IF sent.kind = "error" THEN
        Result(None, Raised("TransportError"), FALSE, FALSE)
    ELSE LET response == sent IN
    IF ~is_success(response) THEN
        LET message == response.text
            status_code == "N00." \o ToString(response.status_code)
            failed == "The HTTP request failed with status code "
                        \o ToString(response.status_code) \o "."
        IN  IF IsEmptyText(message)
            THEN Result(None, NexusException(status_code, failed), FALSE, FALSE)
            ELSE Result(None,
                        NexusException(status_code,
                            failed \o " The response message is: " \o message.plain),
                        FALSE, FALSE)
    ELSE IF typeOfT = "NoneType" THEN
        Result([t |-> "type", v |-> "NoneType"], None, TRUE, FALSE)
    ELSE IF typeOfT = "Response" THEN
        Result(response, None, FALSE, FALSE)
    ELSE
        LET jsonObject == json_loads(response.text) IN
        IF jsonObject = Raised("JSONDecodeError") THEN
            Result(None, jsonObject, TRUE, FALSE)
        ELSE LET return_value == decode(typeOfT, jsonObject) IN
        IF return_value = Raised("KeyError") THEN
            Result(None, return_value, TRUE, TRUE)
        ELSE Result(return_value, None, TRUE, TRUE)

_invoke(typeOfT, sent) ==
    IF sent.kind = "error" THEN
        Result(None, Raised("TransportError"), FALSE, FALSE)
    ELSE LET response == sent IN
    IF ~is_success(response) THEN
        LET message == response.text
            status_code == "N00." \o ToString(response.status_code)
            failed == "The HTTP request failed with status code "
                        \o ToString(response.status_code) \o "."
        IN  IF IsEmptyText(message)
            THEN Result(None, NexusException(status_code, failed), FALSE, FALSE)
            ELSE Result(None,
                        NexusException(status_code,
                            failed \o " The response message is: " \o message.plain),
                        FALSE, FALSE)
    ELSE IF typeOfT = "NoneType" THEN
        Result([t |-> "type", v |-> "NoneType"], None, TRUE, FALSE)
    ELSE IF typeOfT = "Response" THEN
        Result(response, None, FALSE, FALSE)
    ELSE
        LET jsonObject == json_loads(response.text) IN
        IF jsonObject = Raised("JSONDecodeError") THEN
            Result(None, jsonObject, TRUE, FALSE)
        ELSE LET return_value == decode(typeOfT, jsonObject) IN
        IF return_value = Raised("KeyError") THEN
            Result(None, return_value, TRUE, TRUE)
        ELSE IF return_value = None THEN
            Result(None,
                   NexusException("N01", "Response data could not be deserialized."),
                   TRUE, TRUE)
        ELSE Result(return_value, None, TRUE, TRUE)

(***************************************************************************)
(* NexusAsyncClient._invoke.                                               *)
(***************************************************************************)
\* (a faulty variant: the response closed after the return statement instead
\* of in a finally block, so not at all when parsing or decoding raises)
_invoke_async_leak(typeOfT, sent) ==
    IF sent.kind = "error" THEN
        Result(None, Raised("TransportError"), FALSE, FALSE)
    ELSE LET response == sent IN
    IF ~is_success(response) THEN
        LET message == response.text
            status_code == "N00." \o ToString(response.status_code)
            failed == "The HTTP request failed with status code "
                        \o ToString(response.status_code) \o "."
        IN  IF IsEmptyText(message)
            THEN Result(None, NexusException(status_code, failed), FALSE, FALSE)
            ELSE Result(None,
                        NexusException(status_code,
                            failed \o " The response message is: " \o message.plain),
                        FALSE, FALSE)
    ELSE IF typeOfT = "NoneType" THEN
        Result([t |-> "type", v |-> "NoneType"], None, TRUE, FALSE)
    ELSE IF typeOfT = "Response" THEN
        Result(response, None, FALSE, FALSE)
    ELSE
        LET jsonObject == json_loads(response.text) IN
        IF jsonObject = Raised("JSONDecodeError") THEN
            Result(None, jsonObject, FALSE, FALSE)
        ELSE LET return_value == decode(typeOfT, jsonObject) IN
        IF return_value = Raised("KeyError") THEN
            Result(None, return_value, FALSE, TRUE)
        ELSE IF return_value = None THEN
            Result(None,
                   NexusException("N01", "Response data could not be deserialized."),
                   FALSE, TRUE)
        ELSE Result(return_value, None, TRUE, TRUE)

_invoke_async(typeOfT, sent) ==
    IF sent.kind = "error" THEN
        Result(None, Raised("TransportError"), FALSE, FALSE)
    ELSE LET response == sent IN
    IF ~is_success(response) THEN
        LET message == response.text
            status_code == "N00." \o ToString(response.status_code)
            failed == "The HTTP request failed with status code "
                        \o ToString(response.status_code) \o "."
        IN  IF IsEmptyText(message)
            THEN Result(None, NexusException(status_code, failed), FALSE, FALSE)
            ELSE Result(None,
                        NexusException(status_code,
                            failed \o " The response message is: " \o message.plain),
                        FALSE, FALSE)
    ELSE IF typeOfT = "NoneType" THEN
        Result([t |-> "type", v |-> "NoneType"], None, TRUE, FALSE)
    ELSE IF typeOfT = "Response" THEN
        Result(response, None, FALSE, FALSE)
    ELSE
        LET jsonObject == json_loads(response.text) IN
        IF jsonObject = Raised("JSONDecodeError") THEN
            Result(None, jsonObject, TRUE, FALSE)
        ELSE LET return_value == decode(typeOfT, jsonObject) IN
        IF return_value = Raised("KeyError") THEN
            Result(None, return_value, TRUE, TRUE)
        ELSE IF return_value = None THEN
            Result(None,
                   NexusException("N01", "Response data could not be deserialized."),
                   TRUE, TRUE)
        ELSE Result(return_value, None, TRUE, TRUE)

(***************************************************************************)
(* The frame of one export call: its position, its locals, the resources   *)
(* it holds, and what it has done so far.                                  *)
(***************************************************************************)
InitFrame ==
    [ pc |-> "submit",          \* submit, sleep, get_job_status, after_poll,
                                \* download, iter_bytes, extract, returned, raised
      job |-> None,
      job_status |-> None,
      artifact_id |-> None,
      target_stream |-> "none", \* the NamedTemporaryFile: none, open, released
      response |-> None,        \* the artifact response export holds
      length |-> None,
      consumed |-> 0,
      exc |-> None,             \* the exception export raised
      open |-> {},              \* URLs of the responses received and not closed
      invoked |-> None,         \* the last _invoke call: type, outcome of send, result
      trace |-> <<>>,           \* requests, sleeps and callbacks, in order
      polled |-> <<>>,          \* job statuses fetched so far
      chunks |-> <<>> ]         \* sizes of the chunks received and written so far

Log(seq, e) == IF history THEN Append(seq, e) ELSE seq

\* on_progress(progress, message)
Callback(f, progress, message) ==
    [f EXCEPT !.trace = Log(@, <<"on_progress", progress, message>>)]

Raise(f, exc) == [f EXCEPT !.pc = "raised", !.exc = exc]

\* what a request through the handler does to the frame
Invoked(f, typeOfT, method, url, sent, result) ==
    [f EXCEPT
        !.trace = IF history
                  THEN @ \o [i \in 1..result.sends |-> <<"send", method, url>>]
                  ELSE @,
        !.open = IF sent.kind = "response" /\ ~result.closed
                 THEN @ \cup {url} ELSE @,
        !.invoked = [typeOfT |-> typeOfT, sent |-> sent, result |-> result]]

\* urllib.parse.quote(str(value), safe=""), on identifiers of unreserved characters
quote(value) == value.v

(***************************************************************************)
(* The endpoint methods the workflow uses (V1.py).  They hand their call   *)
(* to the request handler, which is the client's _invoke.                  *)
(***************************************************************************)
JobsClient_export(f, sent) ==
    LET url == "/api/v1/jobs/export"
    IN  Invoked(f, "Job", "POST", url, sent, _invoke("Job", sent))

JobsClient_get_job_status(f, job_id, sent) ==
    LET url == "/api/v1/jobs/" \o quote(job_id) \o "/status"
    IN  Invoked(f, "JobStatus", "GET", url, sent, _invoke("JobStatus", sent))

ArtifactsClient_download(f, artifact_id, sent) ==
    LET url == "/api/v1/artifacts/" \o quote(artifact_id)
    IN  Invoked(f, "Response", "GET", url, sent, _invoke("Response", sent))

JobsAsyncClient_export(f, sent) ==
    LET url == "/api/v1/jobs/export"
    IN  Invoked(f, "Job", "POST", url, sent, _invoke_async("Job", sent))

JobsAsyncClient_get_job_status(f, job_id, sent) ==
    LET url == "/api/v1/jobs/" \o quote(job_id) \o "/status"
    IN  Invoked(f, "JobStatus", "GET", url, sent, _invoke_async("JobStatus", sent))

ArtifactsAsyncClient_download(f, artifact_id, sent) ==
    LET url == "/api/v1/artifacts/" \o quote(artifact_id)
    IN  Invoked(f, "Response", "GET", url, sent, _invoke_async("Response", sent))

\* int(s) for a header value, a sequence of characters; None stands for ValueError
Digits == <<"0", "1", "2", "3", "4", "5", "6", "7", "8", "9">>
DigitValue(c) == (CHOOSE i \in 1..10 : Digits[i] = c) - 1
RECURSIVE int(_)
int(s) ==
    IF s = <<>> \/ \E i \in 1..Len(s) : \A j \in 1..10 : Digits[j] # s[i] THEN None
    ELSE IF Len(s) = 1 THEN PyInt(DigitValue(s[1]))
    ELSE PyInt(10 * int(SubSeq(s, 1, Len(s) - 1)).v + DigitValue(s[Len(s)]))

(***************************************************************************)
(* NexusClient.export, one operator per step between two interactions with *)
(* the server, the clock or the file system.                               *)
(***************************************************************************)
\* (a faulty variant: a failed submission is tried again)
export_submit_retry(f, sent) ==
    LET g == JobsClient_export(f, sent)
        result == g.invoked.result
    IN  IF result.exc # None THEN [g EXCEPT !.pc = "submit"]
        ELSE [g EXCEPT !.job = result.value, !.artifact_id = None, !.pc = "sleep"]

\* job = self.v1.jobs.export(export_parameters); artifact_id = None
export_submit(f, sent) ==
    LET g == JobsClient_export(f, sent)
        result == g.invoked.result
    IN  IF result.exc # None THEN Raise(g, result.exc)
        ELSE [g EXCEPT !.job = result.value, !.artifact_id = None, !.pc = "sleep"]

\* (a faulty variant: the wait of two time units)
export_sleep_twice(f) ==
    [f EXCEPT !.trace = Log(Log(@, <<"sleep", 1>>), <<"sleep", 1>>),
              !.pc = "get_job_status"]

\* time.sleep(1)
export_sleep(f) ==
    [f EXCEPT !.trace = Log(@, <<"sleep", 1>>), !.pc = "get_job_status"]

\* (a faulty variant: the progress is reported before the status is examined)
export_poll_report_first(f, sent) ==
    LET g == JobsClient_get_job_status(f, f.job.v.id, sent)
        result == g.invoked.result
        job_status == result.value
        k == [g EXCEPT !.job_status = job_status, !.polled = Log(@, job_status)]
        h == IF LessThanOne(job_status.v.progress) /\ on_progress # None
             THEN Callback(k, job_status.v.progress, "export") ELSE k
    IN  IF result.exc # None THEN Raise(g, result.exc)
        ELSE IF job_status.v.status = Member("TaskStatus", "CANCELED") THEN
            Raise(h, Exception("The job has been cancelled."))
        ELSE IF job_status.v.status = Member("TaskStatus", "FAULTED") THEN
            Raise(h, Exception("The job has failed. Reason: "
                                 \o Format(job_status.v.exception_message)))
        ELSE IF /\ job_status.v.status = Member("TaskStatus", "RAN_TO_COMPLETION")
                /\ job_status.v.result # None
                /\ job_status.v.result.t = "str" THEN
            [h EXCEPT !.artifact_id = job_status.v.result, !.pc = "after_poll"]
        ELSE [h EXCEPT !.pc = "sleep"]

\* the rest of one turn of the poll loop
export_poll(f, sent) ==
    LET g == JobsClient_get_job_status(f, f.job.v.id, sent)
        result == g.invoked.result
        job_status == result.value
        h == [g EXCEPT !.job_status = job_status, !.polled = Log(@, job_status)]
    IN  IF result.exc # None THEN Raise(g, result.exc)
        ELSE IF job_status.v.status = Member("TaskStatus", "CANCELED") THEN
            Raise(h, Exception("The job has been cancelled."))
        ELSE IF job_status.v.status = Member("TaskStatus", "FAULTED") THEN
            Raise(h, Exception("The job has failed. Reason: "
                                 \o Format(job_status.v.exception_message)))
        ELSE IF /\ job_status.v.status = Member("TaskStatus", "RAN_TO_COMPLETION")
                /\ job_status.v.result # None
                /\ job_status.v.result.t = "str" THEN
            [h EXCEPT !.artifact_id = job_status.v.result, !.pc = "after_poll"]
        ELSE IF LessThanOne(job_status.v.progress) /\ on_progress # None THEN
            [Callback(h, job_status.v.progress, "export") EXCEPT !.pc = "sleep"]
        ELSE [h EXCEPT !.pc = "sleep"]

\* (a faulty variant: the artifact is downloaded whatever the file format)
export_after_poll_always_download(f) ==
    LET g == IF on_progress # None THEN Callback(f, PyInt(1), "export") ELSE f
    IN  IF g.artifact_id = None THEN
            Raise(g, Exception("The job result is invalid."))
        ELSE [g EXCEPT !.target_stream = "open", !.pc = "download"]

\* from the end of the loop to the creation of the temporary file
export_after_poll(f) ==
    LET g == IF on_progress # None THEN Callback(f, PyInt(1), "export") ELSE f
    IN  IF g.artifact_id = None THEN
            Raise(g, Exception("The job result is invalid."))
        ELSE IF file_format = None THEN [g EXCEPT !.pc = "returned"]
        ELSE [g EXCEPT !.target_stream = "open", !.pc = "download"]

\* response = self.v1.artifacts.download(artifact_id), and the length
export_download(f, sent) ==
    LET g == ArtifactsClient_download(f, f.artifact_id, sent)
        result == g.invoked.result
        response == result.value
        length == IF "Content-Length" \in DOMAIN response.headers
                  THEN int(response.headers["Content-Length"])
                  ELSE None
    IN  IF result.exc # None THEN
            Raise([g EXCEPT !.target_stream = "released"], result.exc)
        ELSE [g EXCEPT !.response = [url |-> "/api/v1/artifacts/" \o quote(f.artifact_id),
                                     headers |-> response.headers],
                       !.length = length, !.consumed = 0, !.pc = "iter_bytes"]

\* (a faulty variant: the fraction is reported while consumed <= length)
export_iter_bytes_inclusive(f, ev) ==
    LET closed == [f EXCEPT !.open = @ \ {f.response.url}]
        consumed == f.consumed + ev.len
        g == [f EXCEPT !.consumed = consumed, !.chunks = Append(@, ev.len)]
    IN  IF ev.kind = "read_error" THEN
            Raise([closed EXCEPT !.target_stream = "released"], Raised("ReadError"))
        ELSE IF ev.kind = "end" THEN
            [(IF on_progress # None THEN Callback(closed, PyInt(1), "download")
              ELSE closed) EXCEPT !.pc = "extract"]
        ELSE IF ~ev.written THEN
            Raise([closed EXCEPT !.target_stream = "released"], Raised("OSError"))
        ELSE IF f.length # None /\ on_progress # None /\ consumed <= f.length.v THEN
            Callback(g, PyFloat(consumed, f.length.v), "download")
        ELSE g

\* one turn of `for data in response.iter_bytes()`, or its end
export_iter_bytes(f, ev) ==
    LET closed == [f EXCEPT !.open = @ \ {f.response.url}]
        consumed == f.consumed + ev.len
        g == [f EXCEPT !.consumed = consumed, !.chunks = Append(@, ev.len)]
    IN  IF ev.kind = "read_error" THEN
            Raise([closed EXCEPT !.target_stream = "released"], Raised("ReadError"))
        ELSE IF ev.kind = "end" THEN
            [(IF on_progress # None THEN Callback(closed, PyInt(1), "download")
              ELSE closed) EXCEPT !.pc = "extract"]
        ELSE IF ~ev.written THEN
            Raise([closed EXCEPT !.target_stream = "released"], Raised("OSError"))
        ELSE IF f.length # None /\ on_progress # None /\ consumed < f.length.v THEN
            Callback(g, PyFloat(consumed, f.length.v), "download")
        ELSE g

\* with ZipFile(target_stream, "r") as zipFile: zipFile.extractall(target_folder)
export_extract(f, is_zip) ==
    LET g == [f EXCEPT !.target_stream = "released"]
    IN  IF ~is_zip THEN Raise(g, Raised("BadZipFile"))
        ELSE [(IF on_progress # None THEN Callback(g, PyInt(1), "extract") ELSE g)
                EXCEPT !.pc = "returned"]

(***************************************************************************)
(* NexusAsyncClient.export, one operator per step between two interactions with *)
(* the server, the clock or the file system.                               *)
(***************************************************************************)
\* job = self.v1.jobs.export(export_parameters_async); artifact_id = None
export_submit_async(f, sent) ==
    LET g == JobsAsyncClient_export(f, sent)
        result == g.invoked.result
    IN  IF result.exc # None THEN Raise(g, result.exc)
        ELSE [g EXCEPT !.job = result.value, !.artifact_id = None, !.pc = "sleep"]

\* (a faulty variant: the sleep is created and never awaited)
export_sleep_async_skipped(f) ==
    [f EXCEPT !.pc = "get_job_status"]

\* await asyncio.sleep(1)
export_sleep_async(f) ==
    [f EXCEPT !.trace = Log(@, <<"sleep", 1>>), !.pc = "get_job_status"]

\* the rest of one turn of the poll loop
export_poll_async(f, sent) ==
    LET g == JobsAsyncClient_get_job_status(f, f.job.v.id, sent)
        result == g.invoked.result
        job_status == result.value
        h == [g EXCEPT !.job_status = job_status, !.polled = Log(@, job_status)]
    IN  IF result.exc # None THEN Raise(g, result.exc)
        ELSE IF job_status.v.status = Member("TaskStatus", "CANCELED") THEN
            Raise(h, Exception("The job has been cancelled."))
        ELSE IF job_status.v.status = Member("TaskStatus", "FAULTED") THEN
            Raise(h, Exception("The job has failed. Reason: "
                                 \o Format(job_status.v.exception_message)))
        ELSE IF /\ job_status.v.status = Member("TaskStatus", "RAN_TO_COMPLETION")
                /\ job_status.v.result # None
                /\ job_status.v.result.t = "str" THEN
            [h EXCEPT !.artifact_id = job_status.v.result, !.pc = "after_poll"]
        ELSE IF LessThanOne(job_status.v.progress) /\ on_progress # None THEN
            [Callback(h, job_status.v.progress, "export") EXCEPT !.pc = "sleep"]
        ELSE [h EXCEPT !.pc = "sleep"]

\* from the end of the loop to the creation of the temporary file
export_after_poll_async(f) ==
    LET g == IF on_progress # None THEN Callback(f, PyInt(1), "export") ELSE f
    IN  IF g.artifact_id = None THEN
            Raise(g, Exception("The job result is invalid."))
        ELSE IF file_format = None THEN [g EXCEPT !.pc = "returned"]
        ELSE [g EXCEPT !.target_stream = "open", !.pc = "download"]

\* response = await self.v1.artifacts.download(artifact_id), and the length
export_download_async(f, sent) ==
    LET g == ArtifactsAsyncClient_download(f, f.artifact_id, sent)
        result == g.invoked.result
        response == result.value
        length == IF "Content-Length" \in DOMAIN response.headers
                  THEN int(response.headers["Content-Length"])
                  ELSE None
    IN  IF result.exc # None THEN
            Raise([g EXCEPT !.target_stream = "released"], result.exc)
        ELSE [g EXCEPT !.response = [url |-> "/api/v1/artifacts/" \o quote(f.artifact_id),
                                     headers |-> response.headers],
                       !.length = length, !.consumed = 0, !.pc = "iter_bytes"]

\* (a faulty variant: the response is closed only when the stream ends)
export_iter_bytes_async_leak(f, ev) ==
    LET closed == [f EXCEPT !.open = @ \ {f.response.url}]
        consumed == f.consumed + ev.len
        g == [f EXCEPT !.consumed = consumed, !.chunks = Append(@, ev.len)]
    IN  IF ev.kind = "read_error" THEN
            Raise([f EXCEPT !.target_stream = "released"], Raised("ReadError"))
        ELSE IF ev.kind = "end" THEN
            [(IF on_progress # None THEN Callback(closed, PyInt(1), "download")
              ELSE closed) EXCEPT !.pc = "extract"]
        ELSE IF ~ev.written THEN
            Raise([closed EXCEPT !.target_stream = "released"], Raised("OSError"))
        ELSE IF f.length # None /\ on_progress # None /\ consumed < f.length.v THEN
            Callback(g, PyFloat(consumed, f.length.v), "download")
        ELSE g

\* one turn of `async for data in response.aiter_bytes()`, or its end
export_iter_bytes_async(f, ev) ==
    LET closed == [f EXCEPT !.open = @ \ {f.response.url}]
        consumed == f.consumed + ev.len
        g == [f EXCEPT !.consumed = consumed, !.chunks = Append(@, ev.len)]
    IN  IF ev.kind = "read_error" THEN
            Raise([closed EXCEPT !.target_stream = "released"], Raised("ReadError"))
        ELSE IF ev.kind = "end" THEN
            [(IF on_progress # None THEN Callback(closed, PyInt(1), "download")
              ELSE closed) EXCEPT !.pc = "extract"]
        ELSE IF ~ev.written THEN
            Raise([closed EXCEPT !.target_stream = "released"], Raised("OSError"))
        ELSE IF f.length # None /\ on_progress # None /\ consumed < f.length.v THEN
            Callback(g, PyFloat(consumed, f.length.v), "download")
        ELSE g

\* with ZipFile(target_stream, "r") as zipFile: zipFile.extractall(target_folder)
export_extract_async(f, is_zip) ==
    LET g == [f EXCEPT !.target_stream = "released"]
    IN  IF ~is_zip THEN Raise(g, Raised("BadZipFile"))
        ELSE [(IF on_progress # None THEN Callback(g, PyInt(1), "extract") ELSE g)
                EXCEPT !.pc = "returned"]

(***************************************************************************)
(* What the server, the stream and the file system can answer.             *)
(***************************************************************************)
NoHeaders == <<>>

JobDocument ==
    [t |-> "dict", v |-> [id |-> PyStr("job-1"), type |-> PyStr("export"),
                          owner |-> PyStr("me")]]

StatusDocument(status, progress, exceptionMessage, result) ==
    [t |-> "dict", v |-> [status |-> PyStr(status), progress |-> progress,
                          exceptionMessage |-> exceptionMessage, result |-> result]]

Failures ==
    { TransportError,
      Response(503, PlainText(""), NoHeaders),
      Response(404, PlainText("not found"), NoHeaders) }

SubmitSends ==
    Failures \cup { Response(200, JsonText(None), NoHeaders),
                    Response(200, JsonText(JobDocument), NoHeaders) }

StatusDocuments ==
    { StatusDocument("running", PyFloat(p, 10), None, None) : p \in {3, 7, 10} }
    \cup { StatusDocument(s, PyFloat(0, 10), None, None) :
            s \in {"created", "waitingForActivation", "waitingToRun",
                   "waitingForChildrenToComplete"} }
    \cup { StatusDocument("ranToCompletion", PyFloat(7, 10), None, None),
           StatusDocument("ranToCompletion", PyFloat(10, 10), None, PyInt(42)),
           StatusDocument("ranToCompletion", PyFloat(10, 10), None, PyStr("artifact-1")) }
    \cup { StatusDocument("canceled", PyFloat(3, 10), None, None) }
    \cup { StatusDocument("faulted", PyFloat(3, 10), m, None) :
            m \in {None, PyStr("disk full")} }
    \cup { [t |-> "dict", v |-> [status |-> PyStr("running")]],
           StatusDocument("bogus", PyFloat(3, 10), None, None) }

StatusSends ==
    Failures \cup { Response(200, JsonText(None), NoHeaders) }
             \cup { Response(200, JsonText(d), NoHeaders) : d \in StatusDocuments }

ContentLengths == { <<"4">>, <<"0">>, <<"x">> }

DownloadSends ==
    Failures \cup { Response(200, PlainText("PK"), NoHeaders) }
             \cup { Response(200, PlainText("PK"), ("Content-Length" :> c)) :
                        c \in ContentLengths }

ChunkSizes == {2, 4}

StreamEvents(f) ==
    { [kind |-> "end", len |-> 0, written |-> TRUE],
      [kind |-> "read_error", len |-> 0, written |-> TRUE] }
    \cup { [kind |-> "data", len |-> n, written |-> w] :
            n \in IF Len(f.chunks) < MaxChunks THEN ChunkSizes ELSE {},
            w \in BOOLEAN }

(***************************************************************************)
(* The specification.  Each action is one step of export, taken by the     *)
(* synchronous and the asynchronous client on the same input.              *)
(***************************************************************************)
Args == <<file_format, on_progress, history>>

\* the parts of the model that export does not touch
Others == <<client, scopes, call, codec, loader, data_model>>
OthersIdle ==
    /\ client = NexusClient
    /\ scopes = NoScopes
    /\ call = None
    /\ codec = None
    /\ loader = None
    /\ data_model = None

Init ==
    /\ file_format \in {None, PyStr("csv")}
    /\ on_progress \in {None, Callable}
    /\ history = TRUE
    /\ sync = InitFrame
    /\ async = InitFrame
    /\ OthersIdle

At(pc) == sync.pc = pc \/ async.pc = pc

Submit ==
    /\ At("submit")
    /\ \E sent \in SubmitSends :
        /\ sync' = IF sync.pc = "submit" THEN export_submit(sync, sent) ELSE sync
        /\ async' = IF async.pc = "submit" THEN export_submit_async(async, sent) ELSE async
    /\ UNCHANGED <<Args, Others>>

Sleep ==
    /\ At("sleep")
    /\ history => Len(sync.polled) < MaxPolls /\ Len(async.polled) < MaxPolls
    /\ sync' = IF sync.pc = "sleep" THEN export_sleep(sync) ELSE sync
    /\ async' = IF async.pc = "sleep" THEN export_sleep_async(async) ELSE async
    /\ UNCHANGED <<Args, Others>>

Poll ==
    /\ At("get_job_status")
    /\ \E sent \in StatusSends :
        /\ sync' = IF sync.pc = "get_job_status" THEN export_poll(sync, sent) ELSE sync
        /\ async' = IF async.pc = "get_job_status" THEN export_poll_async(async, sent)
                    ELSE async
    /\ UNCHANGED <<Args, Others>>

AfterPoll ==
    /\ At("after_poll")
    /\ sync' = IF sync.pc = "after_poll" THEN export_after_poll(sync) ELSE sync
    /\ async' = IF async.pc = "after_poll" THEN export_after_poll_async(async) ELSE async
    /\ UNCHANGED <<Args, Others>>

Download ==
    /\ At("download")
    /\ \E sent \in DownloadSends :
        /\ sync' = IF sync.pc = "download" THEN export_download(sync, sent) ELSE sync
        /\ async' = IF async.pc = "download" THEN export_download_async(async, sent)
                    ELSE async
    /\ UNCHANGED <<Args, Others>>

IterBytes ==
    /\ At("iter_bytes")
    /\ \E ev \in StreamEvents(IF sync.pc = "iter_bytes" THEN sync ELSE async) :
        /\ sync' = IF sync.pc = "iter_bytes" THEN export_iter_bytes(sync, ev) ELSE sync
        /\ async' = IF async.pc = "iter_bytes" THEN export_iter_bytes_async(async, ev)
                    ELSE async
    /\ UNCHANGED <<Args, Others>>

Extract ==
    /\ At("extract")
    /\ \E is_zip \in BOOLEAN :
        /\ sync' = IF sync.pc = "extract" THEN export_extract(sync, is_zip) ELSE sync
        /\ async' = IF async.pc = "extract" THEN export_extract_async(async, is_zip)
                    ELSE async
    /\ UNCHANGED <<Args, Others>>

Next ==
    \/ Submit
    \/ Sleep
    \/ Poll
    \/ AfterPoll
    \/ Download
    \/ IterBytes
    \/ Extract

Spec == Init /\ [][Next]_vars

(***************************************************************************)
(* Vocabulary of the properties.                                           *)
(***************************************************************************)
Frames == {sync, async}

IsCallback(e) == e[1] = "on_progress"
IsSend(e) == e[1] = "send"
Callbacks(f) == SelectSeq(f.trace, IsCallback)
Last(seq) == seq[Len(seq)]

SubmitUrl == "/api/v1/jobs/export"
IsSubmit(e) == IsSend(e) /\ e[3] = SubmitUrl
IsDownloadSend(e) == IsSend(e) /\ e[2] = "GET" /\ e \notin {<<"send", "GET", "/api/v1/jobs/job-1/status">>}

Terminal == { Member("TaskStatus", s) : s \in {"RAN_TO_COMPLETION", "CANCELED", "FAULTED"} }
StatusOf(f) == IF f.job_status = None THEN None ELSE f.job_status.v.status
HasStringResult(job_status) ==
    job_status.v.result # None /\ job_status.v.result.t = "str"

One(message) == <<"on_progress", PyInt(1), message>>

\* the callbacks the poll phase owes for the statuses polled before the last one
RECURSIVE ExportCallbacks(_)
ExportCallbacks(polled) ==
    IF polled = <<>> THEN <<>>
    ELSE LET job_status == polled[Len(polled)]
             before == ExportCallbacks(SubSeq(polled, 1, Len(polled) - 1))
         IN  IF job_status.v.status \notin Terminal /\ LessThanOne(job_status.v.progress)
             THEN Append(before, <<"on_progress", job_status.v.progress, "export">>)
             ELSE before

\* C1: an export with a file format and a callback that has returned made
\* exactly these callbacks: one (progress, "export") for each status polled
\* before the last that is not terminal and has progress < 1, in poll order;
\* then (1, "export"); then callbacks tagged "download"; then (1, "extract").
C1_CallbackSequence ==
    \A f \in Frames :
        (f.pc = "returned" /\ file_format # None /\ on_progress # None) =>
            LET cb == Callbacks(f)
                expected == ExportCallbacks(SubSeq(f.polled, 1, Len(f.polled) - 1))
                n == Len(expected)
            IN  /\ Len(cb) >= n + 3
                /\ SubSeq(cb, 1, n + 1) = Append(expected, One("export"))
                /\ \A i \in (n + 2)..(Len(cb) - 1) : cb[i][3] = "download"
                /\ Last(cb) = One("extract")

\* C2: once a polled status is Faulted (Canceled), export has raised the error
\* with the server's exception_message (the cancellation error), and the fetch
\* of that status is the last thing it did: no callback, no further fetch, no
\* download, no temporary file.
C2_FaultedOrCanceledRaises ==
    \A f \in Frames :
        StatusOf(f) \in { Member("TaskStatus", "FAULTED"), Member("TaskStatus", "CANCELED") } =>
            /\ f.pc = "raised"
            /\ f.exc = IF StatusOf(f) = Member("TaskStatus", "CANCELED")
                       THEN Exception("The job has been cancelled.")
                       ELSE Exception("The job has failed. Reason: "
                                        \o Format(f.job_status.v.exception_message))
            /\ Last(f.trace) = <<"send", "GET", "/api/v1/jobs/job-1/status">>
            /\ f.response = None /\ f.target_stream = "none"

C2_Witness ==
    /\ sync.pc = "raised"
    /\ StatusOf(sync) = Member("TaskStatus", "FAULTED")
    /\ sync.exc = Exception("The job has failed. Reason: disk full")
    /\ Len(sync.polled) = 2

\* C3: once a polled status is RanToCompletion without a string result, export
\* has raised the invalid-result error at that poll tick.
C3_InvalidResultRaises ==
    \A f \in Frames :
        (StatusOf(f) = Member("TaskStatus", "RAN_TO_COMPLETION")
            /\ ~HasStringResult(f.job_status)) =>
            /\ f.pc = "raised"
            /\ f.exc = Exception("The job result is invalid.")

\* C4: without a file format, export never sends a download request, creates
\* no temporary file and makes no "download" or "extract" callback; once the
\* artifact id is known it returns, and (1, "export") is its last callback.
C4_NoFormatNoDownload ==
    \A f \in Frames :
        file_format = None =>
            /\ f.target_stream = "none" /\ f.response = None
            /\ \A i \in 1..Len(f.trace) :
                /\ ~IsDownloadSend(f.trace[i])
                /\ IsCallback(f.trace[i]) => f.trace[i][3] = "export"
            /\ f.artifact_id # None => f.pc \in {"after_poll", "returned"}
            /\ f.pc = "returned" =>
                IF on_progress # None THEN Last(f.trace) = One("export")
                ELSE IsSend(Last(f.trace))

C4_Witness ==
    /\ file_format = None /\ on_progress # None
    /\ sync.pc = "returned"
    /\ Len(sync.polled) = 3

\* the callbacks the download phase owes for the chunks written so far
RECURSIVE Sum(_)
Sum(seq) == IF seq = <<>> THEN 0 ELSE Sum(SubSeq(seq, 1, Len(seq) - 1)) + Last(seq)
ContentLength(f) ==
    IF "Content-Length" \in DOMAIN f.response.headers
    THEN int(f.response.headers["Content-Length"]) ELSE None
RECURSIVE DownloadCallbacks(_, _)
DownloadCallbacks(chunks, length) ==
    IF chunks = <<>> THEN <<>>
    ELSE LET before == DownloadCallbacks(SubSeq(chunks, 1, Len(chunks) - 1), length)
         IN  IF length # None /\ Sum(chunks) < length.v
             THEN Append(before, <<"on_progress", PyFloat(Sum(chunks), length.v), "download">>)
             ELSE before
Exhausted(f) == f.pc \in {"extract", "returned"} \/ f.exc = Raised("BadZipFile")
IsDownloadCallback(e) == IsCallback(e) /\ e[3] = "download"

\* C5: with a callback, the "download" callbacks are exactly: after each chunk
\* (consumed / length) if the Content-Length parses and consumed < length, and
\* once (1, "download") when the stream is exhausted; the fractions are below
\* 1 and do not decrease.
C5_DownloadCallbacks ==
    \A f \in Frames :
        (f.response # None /\ on_progress # None) =>
            LET cb == SelectSeq(f.trace, IsDownloadCallback)
                steps == DownloadCallbacks(f.chunks, ContentLength(f))
            IN  /\ cb = IF Exhausted(f) THEN Append(steps, One("download")) ELSE steps
                /\ \A i \in 1..Len(steps) :
                    /\ LessThanOne(steps[i][2])
                    /\ \A j \in 1..i : steps[j][2].n * steps[i][2].d <= steps[i][2].n * steps[j][2].d

C5_Witness ==
    /\ on_progress # None
    /\ sync.pc = "extract"
    /\ sync.length = PyInt(4)
    /\ sync.chunks = <<2, 2>>

\* C6: when export has returned or raised, the temporary file is not open and
\* the artifact response export obtained is closed.
C6_ResourcesReleased ==
    \A f \in Frames :
        f.pc \in {"returned", "raised"} =>
            /\ f.target_stream # "open"
            /\ f.response # None => f.response.url \notin f.open

C6_Witness ==
    /\ sync.pc = "raised" /\ async.pc = "raised"
    /\ sync.exc = Raised("ReadError")
    /\ Len(sync.chunks) = 1
    /\ sync.target_stream = "released" /\ async.target_stream = "released"

\* C7: export submits at most once, and exactly once when it is past the
\* submission; a request that failed is the last thing export did: export has
\* raised that error, and did not send the request again.
C7_NoRetry ==
    \A f \in Frames :
        /\ Len(SelectSeq(f.trace, IsSubmit)) = (IF f.invoked = None THEN 0 ELSE 1)
        /\ (f.invoked # None /\ f.invoked.result.exc # None) =>
            /\ f.pc = "raised"
            /\ f.exc = f.invoked.result.exc
            /\ IsSend(Last(f.trace))
            /\ Len(f.trace) > 1 => f.trace[Len(f.trace) - 1] # Last(f.trace)

C7_Witness ==
    /\ sync.pc = "raised"
    /\ sync.invoked.typeOfT = "JobStatus"
    /\ sync.invoked.sent = Response(503, PlainText(""), NoHeaders)
    /\ Len(sync.polled) = 1

Types == {"NoneType", "Response", "Job", "JobStatus"}

\* C8: on the same answers of the server the two clients are in the same
\* state: same requests, sleeps and callbacks in the same order, same locals,
\* same outcome; and the two _invoke agree on the last answer for every type.
C8_SyncAsyncEquivalent ==
    /\ sync = async
    /\ sync.invoked # None =>
        \A typeOfT \in Types :
            _invoke(typeOfT, sync.invoked.sent) = _invoke_async(typeOfT, sync.invoked.sent)

C8_Witness ==
    /\ file_format # None /\ on_progress # None
    /\ sync.pc = "returned" /\ async.pc = "returned"
    /\ Len(sync.chunks) = 2

InitLive ==
    /\ file_format \in {None, PyStr("csv")}
    /\ on_progress \in {None, Callable}
    /\ history = FALSE
    /\ sync = InitFrame
    /\ async = InitFrame
    /\ OthersIdle

LiveSpec == InitLive /\ [][Next]_vars /\ WF_vars(Next)

InPollPhase(f) == f.pc \in {"sleep", "get_job_status"}

\* C9: whenever the server has reported a terminal status (RanToCompletion,
\* Canceled or Faulted), export eventually leaves the poll phase.
C9_TerminalStatusEndsPolling ==
    \A c \in {"sync", "async"} :
        LET f == IF c = "sync" THEN sync ELSE async
        IN  (StatusOf(f) \in Terminal) ~> ~InPollPhase(f)

\* the events of a trace: the wait of the poll loop, the fetch of the status
IsSleep(e) == e = <<"sleep", 1>>
IsStatusFetch(e) == e = <<"send", "GET", "/api/v1/jobs/job-1/status">>

\* the phase of export an event belongs to: 1 submit, 2 poll, 3 download,
\* 4 unpack
PhaseOf(e) ==
    IF IsSleep(e) \/ IsStatusFetch(e) THEN 2
    ELSE IF IsSend(e) THEN (IF IsSubmit(e) THEN 1 ELSE 3)
    ELSE IF e[3] = "export" THEN 2
    ELSE IF e[3] = "download" THEN 3
    ELSE 4

MaxOpenScopes == 2   \* attach_configuration scopes the caller has open at a time

TestConfiguration ==
    << << <<"f", "o", "o", "1">>, <<"b", "a", "r", "1">> >>,
       << <<"f", "o", "o", "2">>, <<"b", "a", "r", "2">> >> >>
Configurations == { TestConfiguration, << << <<"a">>, <<"b">> >> >> }

AccessTokens == {"111"}

\* endpoint methods of V1.py: decode target, method, URL, Accept, Content-Type
Endpoint(typeOfT, method, url, accept_header_value, content_type_value) ==
    [typeOfT |-> typeOfT, method |-> method, url |-> url,
     accept_header_value |-> accept_header_value,
     content_type_value |-> content_type_value]
\* CatalogsClient.get_license(catalog_id), declared -> Optional[str]
CatalogsClient_get_license ==
    Endpoint("str", "GET", "/api/v1/catalogs/%2FA/license",
             PyStr("application/json"), None)
\* SystemClient.get_configuration(), declared -> Optional[dict[str, object]]
SystemClient_get_configuration ==
    Endpoint("dict[str, object]", "GET", "/api/v1/system/configuration",
             PyStr("application/json"), None)
Endpoints ==
    { Endpoint("NoneType", "DELETE", "/api/v1/packagereferences/pr-1", None, None),
      Endpoint("Job", "POST", "/api/v1/jobs/export",
               PyStr("application/json"), PyStr("application/json")),
      Endpoint("JobStatus", "GET", "/api/v1/jobs/job-1/status",
               PyStr("application/json"), None),
      Endpoint("Response", "GET", "/api/v1/artifacts/artifact-1",
               PyStr("application/octet-stream"), None),
      CatalogsClient_get_license,
      SystemClient_get_configuration }

\* the answer of a server that finds the access token expired
Expired ==
    Response(401, PlainText(""),
             ("WWW-Authenticate" :> "Bearer The token expired at ..."))

ClientSends ==
    { Expired,
      Response(200, JsonText(None), NoHeaders),
      Response(200, JsonText(JobDocument), NoHeaders),
      Response(200, JsonText(StatusDocument("bogus", PyFloat(3, 10), None, None)),
               NoHeaders),
      Response(200, PlainText("PK"), NoHeaders) }

\* the configurations of the scopes that are open
Inside(s) == { s.guards[i] : i \in 1..Len(s.guards) }

\* seq without its i-th element
Remove(seq, i) == SubSeq(seq, 1, i - 1) \o SubSeq(seq, i + 1, Len(seq))

ExportIdle ==
    /\ file_format = None
    /\ on_progress = None
    /\ history = TRUE
    /\ sync = InitFrame
    /\ async = InitFrame

InitClient ==
    /\ ExportIdle
    /\ client = NexusClient
    /\ scopes = NoScopes
    /\ call = None
    /\ codec = None
    /\ loader = None
    /\ data_model = None

\* what the caller of the client leaves alone
ClientRest == <<Args, sync, async, codec, loader, data_model>>

\* client.sign_in(access_token)
SignIn ==
    /\ \E access_token \in AccessTokens : client' = sign_in(client, access_token)
    /\ UNCHANGED <<scopes, call, ClientRest>>

\* guard = client.attach_configuration(configuration), the head of a with block
Attach ==
    /\ Len(scopes.guards) < MaxOpenScopes
    /\ \E configuration \in Configurations :
        /\ client' = attach_configuration(client, configuration)
        /\ scopes' = [guards |-> Append(scopes.guards, configuration),
                      latest |-> [op |-> "attach", configuration |-> configuration]]
    /\ UNCHANGED <<call, ClientRest>>

\* the with block of an open scope is left, by its end or by an exception
ExitScope ==
    /\ \E i \in 1..Len(scopes.guards) : \E exc_type \in {None, PyStr("Exception")} :
        /\ client' = _DisposableConfiguration_exit(client, exc_type)
        /\ scopes' = [guards |-> Remove(scopes.guards, i),
                      latest |-> [op |-> "exit", exc_type |-> exc_type]]
    /\ UNCHANGED <<call, ClientRest>>

\* an endpoint method: _invoke builds the request, sends it and handles the
\* answer; the asynchronous client is handed the same answer
Invoke ==
    /\ \E e \in Endpoints : \E sent \in ClientSends :
        call' = [ request |-> _build_request_message(client, e.method, e.url,
                                e.content_type_value, e.accept_header_value),
                  typeOfT |-> e.typeOfT,
                  sent |-> sent,
                  result |-> _invoke(e.typeOfT, sent),
                  result_async |-> _invoke_async(e.typeOfT, sent),
                  inside |-> Inside(scopes),    \* configurations of the open scopes
                  latest |-> scopes.latest ]
    /\ UNCHANGED <<client, scopes, ClientRest>>

NextClient ==
    \/ SignIn
    \/ Attach
    \/ ExitScope
    \/ Invoke

ClientSpec == InitClient /\ [][NextClient]_vars

(***************************************************************************)
(* Properties of the client under its caller.                              *)
(***************************************************************************)
Succeeded(c) == c.sent.kind = "response" /\ is_success(c.sent)
N01 == NexusException("N01", "Response data could not be deserialized.")

\* C11: when a success response is decoded for a record type and the decoder
\* yields None (the body is JSON null), _invoke raises NexusException "N01",
\* returns nothing, and has closed the response.
C11_NullDecodeRaisesN01 ==
    (/\ call # None
     /\ Succeeded(call)
     /\ call.typeOfT \notin {"NoneType", "Response"}
     /\ json_loads(call.sent.text) # Raised("JSONDecodeError")
     /\ decode(call.typeOfT, json_loads(call.sent.text)) = None) =>
        /\ call.result.exc = N01
        /\ call.result.value = None
        /\ call.result.closed

C11_Witness ==
    /\ call # None
    /\ call.typeOfT = "Job"
    /\ call.sent = Response(200, JsonText(None), NoHeaders)
    /\ call.result.exc.status_code = "N01"
    /\ call.result.closed

\* C12: on a success response, both clients return a requested raw response
\* itself and leave it open; for every other requested type, NoneType
\* included, the response is closed when _invoke returns or raises, whether
\* json.loads and the decoder succeed or raise.
C12_ClosedUnlessRawResponse ==
    (call # None /\ Succeeded(call)) =>
        \A r \in {call.result, call.result_async} :
            IF call.typeOfT = "Response"
            THEN r.value = call.sent /\ r.exc = None /\ ~r.closed
            ELSE r.closed

C12_Witness ==
    /\ call # None
    /\ call.typeOfT = "JobStatus"
    /\ call.sent = Response(200, PlainText("PK"), NoHeaders)
    /\ call.result.exc = Raised("JSONDecodeError")
    /\ call.result_async.exc = Raised("JSONDecodeError")
    /\ call.result.closed /\ call.result_async.closed

\* base64(JSON(configuration)) of the two configurations, as Python computes it
HeaderValue(configuration) ==
    IF configuration = TestConfiguration
    THEN "eyJmb28xIjogImJhcjEiLCAiZm9vMiI6ICJiYXIyIn0="
    ELSE "eyJhIjogImIifQ=="
Carries(request, configuration) ==
    /\ ___configuration_header_key \in DOMAIN request.headers
    /\ request.headers[___configuration_header_key] = HeaderValue(configuration)

\* C13 (as claimed): a request carries the Nexus-Configuration header with
\* the value base64(JSON(configuration)) if and only if it is sent inside a
\* scope opened by attach_configuration(configuration), that is after the
\* attach and before the exit of that scope.
C13_HeaderIffInsideScope ==
    call # None =>
        \A configuration \in Configurations :
            Carries(call.request, configuration) <=> configuration \in call.inside

\* C13 (amended): a request carries the Nexus-Configuration header if and only
\* if the last scope event of the client before it was an attach, and the
\* value is then base64(JSON(configuration)) of that attach; a request sent
\* before any attach or after the exit of any scope carries none.  After a
\* scope exit, by the end of the body or by an exception, the client has no
\* such header.
C13_HeaderOfLatestAttach ==
    /\ call # None =>
        IF call.latest # None /\ call.latest.op = "attach"
        THEN Carries(call.request, call.latest.configuration)
        ELSE ___configuration_header_key \notin DOMAIN call.request.headers
    /\ (scopes.latest # None /\ scopes.latest.op = "exit") =>
        ___configuration_header_key \notin DOMAIN client.headers

C13_Witness ==
    /\ call # None
    /\ call.latest = [op |-> "attach", configuration |-> TestConfiguration]
    /\ call.inside = {TestConfiguration}
    /\ call.request.headers[___configuration_header_key]
            = "eyJmb28xIjogImJhcjEiLCAiZm9vMiI6ICJiYXIyIn0="
    /\ scopes = [guards |-> <<>>, latest |-> [op |-> "exit", exc_type |-> PyStr("Exception")]]
    /\ ___configuration_header_key \notin DOMAIN client.headers

\* C20: a request of a signed-in client that was answered 401 with an expired
\* token has been sent again after a refresh of the tokens, and the caller
\* does not get the error of the first attempt.
C20_ExpiredTokenRefreshed ==
    (/\ call # None
     /\ call.sent = Expired
     /\ ___authorization_header_key \in DOMAIN call.request.headers) =>
        /\ call.result.sends >= 2
        /\ call.result.exc # NexusException("N00.401",
                                "The HTTP request failed with status code 401.")

\* C27 (as claimed): every response _invoke obtained is either handed to the
\* caller, for a raw-response request that succeeded, or closed by _invoke
\* before it returns or raises, a non-success response included.
C27_ClosedUnlessHandedOver ==
    (call # None /\ call.sent.kind = "response") =>
        \A r \in {call.result, call.result_async} :
            \/ r.closed
            \/ call.typeOfT = "Response" /\ r.exc = None /\ r.value = call.sent

\* the header of an attached configuration, in the client or in a request
Attached(headers) ==
    IF ___configuration_header_key \in DOMAIN headers
    THEN {headers[___configuration_header_key]} ELSE {}

C29_OptionalReturnsNone ==
    (/\ call # None
     /\ Succeeded(call)
     /\ call.typeOfT \in {CatalogsClient_get_license.typeOfT,
                          SystemClient_get_configuration.typeOfT}
     /\ json_loads(call.sent.text) = None) =>
        \A r \in {call.result, call.result_async} :
            r.exc = None /\ r.value = None

(***************************************************************************)
(* The codec at the level of characters (_encoder.py, _shared.py).  Text   *)
(* is a sequence of characters, a JSON string is Text(chars).              *)
(***************************************************************************)
Text(chars) == [t |-> "str", chars |-> chars]

UpperLetters == <<"A", "B", "C", "D", "E", "F", "G", "H", "I", "J", "K", "L", "M", "N", "O", "P", "Q", "R", "S", "T", "U", "V", "W", "X", "Y", "Z">>
LowerLetters == <<"a", "b", "c", "d", "e", "f", "g", "h", "i", "j", "k", "l", "m", "n", "o", "p", "q", "r", "s", "t", "u", "v", "w", "x", "y", "z">>

Range(seq) == { seq[i] : i \in 1..Len(seq) }
IndexOf(seq, c) == CHOOSE i \in 1..Len(seq) : seq[i] = c

\* the character classes [A-Z], [a-z] and [0-9]
isupper(c) == c \in Range(UpperLetters)
islower(c) == c \in Range(LowerLetters)
isdigit(c) == c \in Range(Digits)

\* str.lower(), str.upper()
lower(value) ==
    [i \in 1..Len(value) |->
        IF isupper(value[i]) THEN LowerLetters[IndexOf(UpperLetters, value[i])]
        ELSE value[i]]
upper(value) ==
    [i \in 1..Len(value) |->
        IF islower(value[i]) THEN UpperLetters[IndexOf(LowerLetters, value[i])]
        ELSE value[i]]

\* str.title(): a letter that follows a letter is lowered, any other letter
\* is raised
title(value) ==
    [i \in 1..Len(value) |->
        LET after_letter == i > 1 /\ (isupper(value[i - 1]) \/ islower(value[i - 1]))
        IN  IF after_letter THEN lower(<<value[i]>>)[1] ELSE upper(<<value[i]>>)[1]]

\* str.split(sep)
RECURSIVE split(_, _)
split(value, sep) ==
    IF \A i \in 1..Len(value) : value[i] # sep THEN <<value>>
    ELSE LET i == CHOOSE k \in 1..Len(value) :
                    value[k] = sep /\ \A j \in 1..(k - 1) : value[j] # sep
         IN  <<SubSeq(value, 1, i - 1)>> \o split(SubSeq(value, i + 1, Len(value)), sep)

\* ''.join(parts), of sequences of characters
RECURSIVE concat(_)
concat(parts) == IF parts = <<>> THEN <<>> ELSE parts[1] \o concat(Tail(parts))

\* to_camel_case
to_camel_case(value) ==
    LET components == split(value, "_")
    IN  components[1]
            \o concat([i \in 1..(Len(components) - 1) |-> title(components[i + 1])])

\* snake_case_pattern, '((?<=[a-z0-9])[A-Z]|(?!^)[A-Z](?=[a-z]))', at position i
snake_case_pattern(value, i) ==
    /\ isupper(value[i])
    /\ \/ i > 1 /\ (islower(value[i - 1]) \/ isdigit(value[i - 1]))
       \/ i # 1 /\ i < Len(value) /\ islower(value[i + 1])

\* to_snake_case: snake_case_pattern.sub(r'_\1', value).lower()
to_snake_case(value) ==
    lower(concat([i \in 1..Len(value) |->
                    IF snake_case_pattern(value, i)
                    THEN <<"_", value[i]>> ELSE <<value[i]>>]))

\* _json_encoder_options.property_name_encoder and .property_name_decoder
_json_encoder_options_property_name_encoder(value) ==
    IF value # <<"c", "l", "a", "s", "s", "_">> THEN to_camel_case(value)
    ELSE <<"c", "l", "a", "s", "s">>
_json_encoder_options_property_name_decoder(value) ==
    IF value # <<"c", "l", "a", "s", "s">> THEN to_snake_case(value)
    ELSE <<"c", "l", "a", "s", "s", "_">>

\* the names of the members of the enums (V1.py)
TaskStatus_names ==
    { <<"C", "R", "E", "A", "T", "E", "D">>,
      <<"W", "A", "I", "T", "I", "N", "G", "_", "F", "O", "R", "_", "A", "C", "T", "I", "V", "A", "T", "I", "O", "N">>,
      <<"W", "A", "I", "T", "I", "N", "G", "_", "T", "O", "_", "R", "U", "N">>,
      <<"R", "U", "N", "N", "I", "N", "G">>,
      <<"W", "A", "I", "T", "I", "N", "G", "_", "F", "O", "R", "_", "C", "H", "I", "L", "D", "R", "E", "N", "_", "T", "O", "_", "C", "O", "M", "P", "L", "E", "T", "E">>,
      <<"R", "A", "N", "_", "T", "O", "_", "C", "O", "M", "P", "L", "E", "T", "I", "O", "N">>,
      <<"C", "A", "N", "C", "E", "L", "E", "D">>,
      <<"F", "A", "U", "L", "T", "E", "D">> }

NexusDataType_names ==
    { <<"U", "I", "N", "T", "8">>,
      <<"U", "I", "N", "T", "1", "6">>,
      <<"U", "I", "N", "T", "3", "2">>,
      <<"U", "I", "N", "T", "6", "4">>,
      <<"I", "N", "T", "8">>,
      <<"I", "N", "T", "1", "6">>,
      <<"I", "N", "T", "3", "2">>,
      <<"I", "N", "T", "6", "4">>,
      <<"F", "L", "O", "A", "T", "3", "2">>,
      <<"F", "L", "O", "A", "T", "6", "4">> }

Enums == {"TaskStatus", "NexusDataType"}
__members__(typeCls) ==
    IF typeCls = "TaskStatus" THEN TaskStatus_names ELSE NexusDataType_names

\* member.name, of a member of typeCls
name(typeCls, member) == CHOOSE n \in __members__(typeCls) : join(n) = member.v

\* typeCls[name]
getitem(typeCls, key) ==
    IF key \in __members__(typeCls) THEN Member(typeCls, join(key))
    ELSE Raised("KeyError")

\* _json_encoder_options.encoders[Enum]
encoders_Enum(typeCls, value) == Text(to_camel_case(name(typeCls, value)))

\* _json_encoder_options.decoders[Enum]
decoders_Enum(typeCls, value) == getitem(typeCls, upper(to_snake_case(value.chars)))

(***************************************************************************)
(* Durations.  A timedelta is normalised as Python keeps it: any number of *)
(* days, 0 <= seconds < 86400, 0 <= microseconds < 1000000.                *)
(***************************************************************************)
\* datetime.timedelta(days, hours, minutes, seconds, microseconds), of integers
timedelta(days, hours, minutes, seconds, microseconds) ==
    LET s == hours * 3600 + minutes * 60 + seconds + (microseconds \div 1000000)
    IN  [t |-> "timedelta", days |-> days + (s \div 86400), seconds |-> s % 86400,
         microseconds |-> microseconds % 1000000]

\* str(n) and f"{n:0{width}d}" of an integer
RECURSIVE str_digits(_)
str_digits(n) ==
    IF n < 10 THEN <<Digits[n + 1]>> ELSE Append(str_digits(n \div 10), Digits[(n % 10) + 1])
str(n) == IF n < 0 THEN <<"-">> \o str_digits(0 - n) ELSE str_digits(n)
zfill(n, width) ==
    LET d == str(n) IN [i \in 1..(width - Len(d)) |-> "0"] \o d

\* (a faulty variant: the sub-second part written with six digits)
_encode_timedelta_six_digits(value) ==
    LET hours == value.seconds \div 3600
        remainder == value.seconds % 3600
        minutes == remainder \div 60
        seconds == remainder % 60
    IN  str(value.days) \o <<".">> \o zfill(hours, 2) \o <<":">> \o zfill(minutes, 2)
            \o <<":">> \o zfill(seconds, 2) \o <<".">> \o zfill(value.microseconds, 6)

\* _encode_timedelta
_encode_timedelta(value) ==
    LET hours == value.seconds \div 3600
        remainder == value.seconds % 3600
        minutes == remainder \div 60
        seconds == remainder % 60
    IN  str(value.days) \o <<".">> \o zfill(hours, 2) \o <<":">> \o zfill(minutes, 2)
            \o <<":">> \o zfill(seconds, 2) \o <<".">> \o zfill(value.microseconds, 6)
            \o <<"0">>

\* [0-9]+ and [0-9]{2}
IsDigits(chars) == chars # <<>> /\ \A i \in 1..Len(chars) : isdigit(chars[i])
IsTwoDigits(chars) == Len(chars) = 2 /\ IsDigits(chars)

\* timedelta_pattern.match(value): the groups of
\* ^(?:([0-9]+)\.)?([0-9]{2}):([0-9]{2}):([0-9]{2})(?:\.([0-9]+))?$,
\* each a Text or, when it took no part in the match, None; or None when the
\* pattern does not match
timedelta_pattern_match(value) ==
    LET text == IF value # <<>> /\ value[Len(value)] = "\n"   \* $ also matches
                THEN SubSeq(value, 1, Len(value) - 1)         \* before a last newline
                ELSE value
        n == Len(text)
        colons == { i \in 1..n : text[i] = ":" }
    IN  IF colons = {} THEN None
        ELSE
        LET c == CHOOSE i \in colons : \A j \in colons : i <= j
            head == SubSeq(text, 1, c - 1)
            dots == { i \in 1..Len(head) : head[i] = "." }
            d == IF dots = {} THEN 0 ELSE CHOOSE i \in dots : \A j \in dots : i <= j
            group1 == IF d = 0 THEN None ELSE Text(SubSeq(head, 1, d - 1))
            group2 == SubSeq(head, d + 1, Len(head))
            group3 == SubSeq(text, c + 1, c + 2)
            group4 == SubSeq(text, c + 4, c + 5)
            group5 == IF n > c + 5 THEN Text(SubSeq(text, c + 7, n)) ELSE None
        IN  IF /\ group1 # None => IsDigits(group1.chars)
               /\ IsTwoDigits(group2)
               /\ n >= c + 5
               /\ IsTwoDigits(group3)
               /\ text[c + 3] = ":"
               /\ IsTwoDigits(group4)
               /\ n > c + 5 => (text[c + 6] = "." /\ IsDigits(group5.chars))
            THEN [group |-> <<group1, Text(group2), Text(group3), Text(group4), group5>>]
            ELSE None

\* round(n / 10.0) to the nearest integer, a half to the even one: what
\* timedelta makes of the float microseconds
round_tenth(n) ==
    LET q == n \div 10
        r == n % 10
    IN  IF r < 5 \/ (r = 5 /\ q % 2 = 0) THEN q ELSE q + 1

\* _decode_timedelta
_decode_timedelta(value) ==
    LET match == timedelta_pattern_match(value)
    IN  IF match # None
        THEN LET days == IF match.group[1] # None THEN int(match.group[1].chars).v ELSE 0
                 hours == int(match.group[2].chars).v
                 minutes == int(match.group[3].chars).v
                 seconds == int(match.group[4].chars).v
                 microseconds == IF match.group[5] # None
                                 THEN round_tenth(int(match.group[5].chars).v) ELSE 0
             IN  timedelta(days, hours, minutes, seconds, microseconds)
        ELSE Exception("Unable to decode " \o join(value) \o " into value of type timedelta.")

(***************************************************************************)
(* Date-times and UUIDs.  The tzinfo of a datetime is None or a timezone   *)
(* of a whole number of minutes.                                           *)
(***************************************************************************)
timezone(minutes) == [t |-> "timezone", minutes |-> minutes]
datetime(year, month, day, hour, minute, second, microsecond, tzinfo) ==
    [t |-> "datetime", year |-> year, month |-> month, day |-> day, hour |-> hour,
     minute |-> minute, second |-> second, microsecond |-> microsecond,
     tzinfo |-> tzinfo]

\* str.startswith(prefix) and str.replace(old, new)
startswith(value, prefix) ==
    Len(value) >= Len(prefix) /\ SubSeq(value, 1, Len(prefix)) = prefix
RECURSIVE replace(_, _, _)
replace(value, old, new) ==
    IF value = <<>> THEN <<>>
    ELSE IF startswith(value, old)
    THEN new \o replace(SubSeq(value, Len(old) + 1, Len(value)), old, new)
    ELSE <<value[1]>> \o replace(Tail(value), old, new)

\* datetime.isoformat()
isoformat(value) ==
    LET offset == IF value.tzinfo = None THEN 0 ELSE value.tzinfo.minutes
        distance == IF offset < 0 THEN 0 - offset ELSE offset
    IN  zfill(value.year, 4) \o <<"-">> \o zfill(value.month, 2) \o <<"-">>
            \o zfill(value.day, 2) \o <<"T">> \o zfill(value.hour, 2) \o <<":">>
            \o zfill(value.minute, 2) \o <<":">> \o zfill(value.second, 2)
            \o (IF value.microsecond # 0
                THEN <<".">> \o zfill(value.microsecond, 6) ELSE <<>>)
            \o (IF value.tzinfo = None THEN <<>>
                ELSE <<IF offset < 0 THEN "-" ELSE "+">> \o zfill(distance \div 60, 2)
                        \o <<":">> \o zfill(distance % 60, 2))

\* datetime.fromisoformat(value), for YYYY-MM-DD, a separator, HH:MM:SS, then
\* nothing or a fraction of three or six digits, then nothing or +HH:MM or
\* -HH:MM; ValueError for any other text
fromisoformat(value) ==
    LET n == Len(value)
        field(i, j) == SubSeq(value, i, j)
        fraction == IF n >= 20 /\ value[20] = "."
                    THEN IF n >= 26 /\ IsDigits(field(21, 26)) THEN 6
                         ELSE IF n >= 23 /\ IsDigits(field(21, 23)) THEN 3
                         ELSE 0 - 1
                    ELSE 0
        z == IF fraction > 0 THEN 20 + fraction + 1 ELSE 20   \* where the offset starts
        microsecond == IF fraction = 6 THEN int(field(21, 26)).v
                       ELSE IF fraction = 3 THEN int(field(21, 23)).v * 1000
                       ELSE 0
        well_formed ==
            /\ n >= 19
            /\ IsDigits(field(1, 4)) /\ value[5] = "-" /\ IsTwoDigits(field(6, 7))
            /\ value[8] = "-" /\ IsTwoDigits(field(9, 10))
            /\ IsTwoDigits(field(12, 13)) /\ value[14] = ":"
            /\ IsTwoDigits(field(15, 16)) /\ value[17] = ":"
            /\ IsTwoDigits(field(18, 19))
            /\ fraction >= 0
            /\ \/ n = z - 1
               \/ /\ n = z + 5
                  /\ value[z] \in {"+", "-"}
                  /\ IsTwoDigits(field(z + 1, z + 2)) /\ value[z + 3] = ":"
                  /\ IsTwoDigits(field(z + 4, z + 5))
    IN  IF ~well_formed THEN Raised("ValueError")
        ELSE datetime(int(field(1, 4)).v, int(field(6, 7)).v, int(field(9, 10)).v,
                      int(field(12, 13)).v, int(field(15, 16)).v, int(field(18, 19)).v,
                      microsecond,
                      IF n = z - 1 THEN None
                      ELSE LET distance == int(field(z + 1, z + 2)).v * 60
                                            + int(field(z + 4, z + 5)).v
                           IN  timezone(IF value[z] = "-" THEN 0 - distance ELSE distance))

\* JsonEncoderOptions.encoders[datetime]
encoders_datetime(value) ==
    replace(isoformat(value), <<"+", "0", "0", ":", "0", "0">>, <<"Z">>)

\* JsonEncoderOptions.decoders[datetime]:
\* fromisoformat((value[0:26] + value[26 + 1:]).replace("Z", "+00:00"))
decoders_datetime(value) ==
    LET sliced == SubSeq(value, 1, IF Len(value) < 26 THEN Len(value) ELSE 26)
                    \o SubSeq(value, 28, Len(value))
    IN  fromisoformat(replace(sliced, <<"Z">>, <<"+", "0", "0", ":", "0", "0">>))

HexDigits == Digits \o <<"a", "b", "c", "d", "e", "f">>
ishex(c) == c \in Range(HexDigits) \cup {"A", "B", "C", "D", "E", "F"}

\* str.strip(chars)
RECURSIVE strip(_, _)
strip(value, chars) ==
    IF value # <<>> /\ value[1] \in chars THEN strip(Tail(value), chars)
    ELSE IF value # <<>> /\ value[Len(value)] \in chars
    THEN strip(SubSeq(value, 1, Len(value) - 1), chars)
    ELSE value

\* uuid.UUID(hex): two UUIDs are equal when their 128-bit numbers are, which
\* the 32 hexadecimal digits in lower case stand for
UUID(data) ==
    LET unprefixed == replace(replace(data, <<"u", "r", "n", ":">>, <<>>),
                              <<"u", "u", "i", "d", ":">>, <<>>)
        hex == replace(strip(unprefixed, {"{", "}"}), <<"-">>, <<>>)
    IN  IF Len(hex) # 32 \/ \E i \in 1..Len(hex) : ~ishex(hex[i])
        THEN Raised("ValueError")
        ELSE [t |-> "UUID", hex |-> lower(hex)]

\* str(uuid): the digits in groups of 8, 4, 4, 4 and 12
str_UUID(value) ==
    SubSeq(value.hex, 1, 8) \o <<"-">> \o SubSeq(value.hex, 9, 12) \o <<"-">>
        \o SubSeq(value.hex, 13, 16) \o <<"-">> \o SubSeq(value.hex, 17, 20) \o <<"-">>
        \o SubSeq(value.hex, 21, 32)

(***************************************************************************)
(* JsonEncoder.encode and JsonEncoder.decode with the client's options.    *)
(***************************************************************************)
\* JsonEncoder._try_encode
_try_encode(value) ==
    IF value = None THEN None
    ELSE IF value.t = "UUID" THEN Text(str_UUID(value))
    ELSE IF value.t = "datetime" THEN Text(encoders_datetime(value))
    ELSE IF value.t = "timedelta" THEN Text(_encode_timedelta(value))
    ELSE IF value.t \in Enums THEN encoders_Enum(value.t, value)
    ELSE value

\* JsonEncoder.encode(value, _json_encoder_options)
JsonEncoder_encode(value) == _try_encode(value)

(***************************************************************************)
(* Types are named as Python prints them.  A JSON object is its keys and   *)
(* values in the order of the text, a JSON array is its items.             *)
(***************************************************************************)
dict(items) == [t |-> "dict", items |-> items]
list(items) == [t |-> "list", items |-> items]
Origin(cls) == [t |-> "type", name |-> cls]

\* typing.get_origin and typing.get_args, on the annotations of the records
get_origin(typeCls) ==
    CASE typeCls \in {"Optional[str]", "Optional[object]", "Optional[dict[str, object]]",
                      "Optional[list[Representation]]"} -> Origin("Union")
      [] typeCls \in {"list[float]", "list[Representation]"} -> Origin("list")
      [] typeCls \in {"dict[str, object]", "dict[str, str]"} -> Origin("dict")
      [] typeCls = "ClassVar[int]" -> Origin("ClassVar")
      [] OTHER -> None

get_args(typeCls) ==
    CASE typeCls = "Optional[str]" -> <<"str", "NoneType">>
      [] typeCls = "Optional[object]" -> <<"object", "NoneType">>
      [] typeCls = "Optional[dict[str, object]]" -> <<"dict[str, object]", "NoneType">>
      [] typeCls = "Optional[list[Representation]]" -> <<"list[Representation]", "NoneType">>
      [] typeCls = "list[float]" -> <<"float">>
      [] typeCls = "list[Representation]" -> <<"Representation">>
      [] typeCls = "dict[str, object]" -> <<"str", "object">>
      [] typeCls = "dict[str, str]" -> <<"str", "str">>
      [] typeCls = "ClassVar[int]" -> <<"int">>
      [] OTHER -> <<>>

\* the records: JobStatus, Representation, Resource, CatalogAvailability and
\* PackageReference of V1.py, and Counter, a record of a caller with an integer
\* field and a class variable
Records ==
    {"JobStatus", "Representation", "Resource", "CatalogAvailability",
     "PackageReference", "Counter"}

\* dataclasses.is_dataclass(typeCls)
dataclasses_is_dataclass(typeCls) == typeCls \in Records

\* typing.get_type_hints(typeCls): the annotated names and their types
get_type_hints(typeCls) ==
    CASE typeCls = "JobStatus" ->
            << <<<<"s", "t", "a", "r", "t">>, "datetime">>,
               <<<<"s", "t", "a", "t", "u", "s">>, "TaskStatus">>,
               <<<<"p", "r", "o", "g", "r", "e", "s", "s">>, "float">>,
               <<<<"e", "x", "c", "e", "p", "t", "i", "o", "n", "_", "m", "e", "s", "s", "a", "g", "e">>, "Optional[str]">>,
               <<<<"r", "e", "s", "u", "l", "t">>, "Optional[object]">> >>
      [] typeCls = "Representation" ->
            << <<<<"d", "a", "t", "a", "_", "t", "y", "p", "e">>, "NexusDataType">>,
               <<<<"s", "a", "m", "p", "l", "e", "_", "p", "e", "r", "i", "o", "d">>, "timedelta">>,
               <<<<"p", "a", "r", "a", "m", "e", "t", "e", "r", "s">>, "Optional[dict[str, object]]">> >>
      [] typeCls = "Resource" ->
            << <<<<"i", "d">>, "str">>,
               <<<<"p", "r", "o", "p", "e", "r", "t", "i", "e", "s">>, "Optional[dict[str, object]]">>,
               <<<<"r", "e", "p", "r", "e", "s", "e", "n", "t", "a", "t", "i", "o", "n", "s">>, "Optional[list[Representation]]">> >>
      [] typeCls = "CatalogAvailability" ->
            << <<<<"d", "a", "t", "a">>, "list[float]">> >>
      [] typeCls = "PackageReference" ->
            << <<<<"p", "r", "o", "v", "i", "d", "e", "r">>, "str">>,
               <<<<"c", "o", "n", "f", "i", "g", "u", "r", "a", "t", "i", "o", "n">>, "dict[str, str]">> >>
      [] typeCls = "Counter" ->
            << <<<<"c", "o", "u", "n", "t">>, "int">>,
               <<<<"r", "a", "t", "i", "o">>, "float">>,
               <<<<"l", "a", "b", "e", "l">>, "str">>,
               <<<<"e", "n", "a", "b", "l", "e", "d">>, "bool">>,
               <<<<"l", "i", "m", "i", "t">>, "ClassVar[int]">> >>

\* (a faulty variant: a key with no annotation is taken for a value of any type)
type_hints_get_any(hints, key) ==
    IF \E i \in 1..Len(hints) : hints[i][1] = key
    THEN hints[CHOOSE i \in 1..Len(hints) : hints[i][1] = key][2]
    ELSE "Any"

\* hints.get(key); "None" stands for no type
type_hints_get(hints, key) ==
    IF \E i \in 1..Len(hints) : hints[i][1] = key
    THEN hints[CHOOSE i \in 1..Len(hints) : hints[i][1] = key][2]
    ELSE "None"

\* (a faulty variant: no field gets a number for its default)
default_none(value) == None

\* the default of a field the JSON object does not known: 0 for int, 0.0 for
\* float, None for any other type
default(value) ==
    IF value = "int" THEN PyInt(0)
    ELSE IF value = "float" THEN PyFloat(0, 1)
    ELSE None

\* typeCls(**parameters): the fields are the annotated names that are no class
\* variables; a keyword that is no field is a TypeError
construct(typeCls, parameters) ==
    LET hints == get_type_hints(typeCls)
        fields == { join(hints[i][1]) : i \in { j \in 1..Len(hints) :
                        get_origin(hints[j][2]) # Origin("ClassVar") } }
    IN  IF DOMAIN parameters # fields THEN Raised("TypeError")
        ELSE [t |-> typeCls, fields |-> parameters]

is_raised(value) == "type" \in DOMAIN value

\* what a loop over decoded items gives: the first exception raised, or else
\* the instance
first_raised(decoded, instance) ==
    IF \E i \in 1..Len(decoded) : is_raised(decoded[i])
    THEN decoded[CHOOSE i \in 1..Len(decoded) :
            /\ is_raised(decoded[i])
            /\ \A j \in 1..(i - 1) : ~is_raised(decoded[j])]
    ELSE instance

\* JsonEncoder._decode
RECURSIVE _decode(_, _)
_decode(typeCls, data) ==
    LET origin == get_origin(typeCls)
        args == get_args(typeCls)
    IN  IF data = None THEN None
        ELSE IF typeCls = "Any" THEN data
        ELSE IF typeCls = "UUID" THEN UUID(data.chars)
        ELSE IF origin # None THEN
            IF origin = Origin("Union") /\ "NoneType" \in Range(args)
            THEN _decode(args[1], data)
            ELSE IF origin \in {Origin("Union"), Origin("ClassVar")}
            THEN Raised("TypeError")        \* issubclass() of what is no class
            ELSE IF origin = Origin("list")
            THEN LET instance1 ==
                        [i \in 1..Len(data.items) |-> _decode(args[1], data.items[i])]
                 IN  first_raised(instance1, list(instance1))
            ELSE IF origin = Origin("dict")
            THEN LET instance2 ==
                        [i \in 1..Len(data.items) |-> _decode(args[2], data.items[i][2])]
                 IN  first_raised(instance2,
                        dict([i \in 1..Len(data.items) |-> <<data.items[i][1], instance2[i]>>]))
            ELSE Exception("Type " \o origin.name \o " cannot be decoded.")
        ELSE IF dataclasses_is_dataclass(typeCls) THEN
            LET hints == get_type_hints(typeCls)
                key(i) == _json_encoder_options_property_name_decoder(data.items[i][1])
                parameter_type(i) == type_hints_get(hints, key(i))
                known == { i \in 1..Len(data.items) : parameter_type(i) # "None" }
                decoded == [i \in 1..Len(data.items) |->
                                IF i \in known THEN _decode(parameter_type(i), data.items[i][2])
                                ELSE None]
                \* parameters[key] = value: the last value of a key stays
                last(k) == CHOOSE i \in known :
                                /\ join(key(i)) = k
                                /\ \A j \in known : join(key(j)) = k => j <= i
                read == [k \in { join(key(i)) : i \in known } |-> decoded[last(k)]]
                \* ensure default values if JSON does not serialize default fields
                unset == { i \in 1..Len(hints) :
                                /\ join(hints[i][1]) \notin DOMAIN read
                                /\ get_origin(hints[i][2]) # Origin("ClassVar") }
                hint(k) == hints[CHOOSE i \in unset : join(hints[i][1]) = k][2]
                parameters == [k \in DOMAIN read \cup { join(hints[i][1]) : i \in unset } |->
                                IF k \in DOMAIN read THEN read[k] ELSE default(hint(k))]
            IN  first_raised(decoded, construct(typeCls, parameters))
        ELSE IF typeCls = "datetime" THEN decoders_datetime(data.chars)
        ELSE IF typeCls = "timedelta" THEN _decode_timedelta(data.chars)
        ELSE IF typeCls \in Enums THEN decoders_Enum(typeCls, data)
        ELSE data

\* JsonEncoder.decode(type, data, _json_encoder_options)
JsonEncoder_decode(typeCls, data) == _decode(typeCls, data)

(***************************************************************************)
(* The codec under its callers: a value is encoded and the result decoded  *)
(* again for the type of the value, or a JSON document is decoded for a    *)
(* type.                                                                   *)
(***************************************************************************)
\* the name of a member as the server writes it
CamelCase(member_name) ==
    LET components == split(member_name, "_")
    IN  lower(components[1])
            \o concat([i \in 1..(Len(components) - 1) |-> title(components[i + 1])])

EnumValues ==
    UNION { { [typeCls |-> typeCls, value |-> Member(typeCls, join(n))] :
                n \in __members__(typeCls) } : typeCls \in Enums }

Durations ==
    { [t |-> "timedelta", days |-> d, seconds |-> s, microseconds |-> u] :
        d \in {0 - 1, 0, 1, 100}, s \in {0, 7384, 86399}, u \in {0, 1, 500000, 999999} }

DateTimes ==
    { datetime(2020, 1, 2, 3, 4, 5, u, tz) :
        u \in {0, 123456, 500000},
        tz \in {None, timezone(0), timezone(120), timezone(0 - 300)} }

UUIDs ==
    { [t |-> "UUID", hex |-> <<"1", "2", "3", "4", "5", "6", "7", "8", "1", "2", "3", "4", "5", "6", "7", "8", "1", "2", "3", "4", "5", "6", "7", "8", "1", "2", "3", "4", "5", "6", "7", "8">>],
      [t |-> "UUID", hex |-> <<"a", "b", "c", "d", "e", "f", "0", "1", "2", "3", "4", "5", "6", "7", "8", "9", "a", "b", "c", "d", "e", "f", "0", "1", "2", "3", "4", "5", "6", "7", "8", "9">>] }

Values ==
    EnumValues
    \cup { [typeCls |-> "timedelta", value |-> x] : x \in Durations }
    \cup { [typeCls |-> "datetime", value |-> x] : x \in DateTimes }
    \cup { [typeCls |-> "UUID", value |-> x] : x \in UUIDs }

EnumDocuments ==
    { [typeCls |-> "TaskStatus", data |-> Text(d)] :
        d \in { CamelCase(n) : n \in TaskStatus_names } \cup { <<"b", "o", "g", "u", "s">> } }
    \cup { [typeCls |-> "NexusDataType", data |-> Text(d)] :
        d \in { CamelCase(n) : n \in NexusDataType_names } }

DurationDocuments ==
    { [typeCls |-> "timedelta", data |-> Text(d)] :
        d \in { <<"1", "2", ":", "0", "8", ":", "0", "7">>,
                <<"1", "2", ":", "0", "8", ":", "0", "7", ".", "1", "2", "5", "0", "0", "0", "0">>,
                <<"3", "0", "0", "0", ".", "0", "0", ":", "0", "8", ":", "0", "7">>,
                <<"1", "2", ":", "0", "8", ":", "0", "7", ".", "1", "5">>,
                <<"1", ":", "0", "2", ":", "0", "3">>,
                <<"1", "2", ":", "0", "8", ":", "0", "7", ".">>,
                <<"9", "9", ":", "9", "9", ":", "9", "9">> } }

DateTimeDocuments ==
    { [typeCls |-> "datetime", data |-> Text(d)] :
        d \in { <<"2", "0", "2", "0", "-", "0", "1", "-", "0", "2", "T", "0", "3", ":", "0", "4", ":", "0", "5", ".", "1", "2", "3", "4", "5", "6", "7", "Z">>,
                <<"2", "0", "2", "0", "-", "0", "1", "-", "0", "2", "T", "0", "3", ":", "0", "4", ":", "0", "5", ".", "1", "2", "3", "4", "5", "6", "7", "+", "0", "2", ":", "0", "0">>,
                <<"2", "0", "2", "0", "-", "0", "1", "-", "0", "2", "T", "0", "3", ":", "0", "4", ":", "0", "5", "Z">> } }

UUIDDocuments ==
    { [typeCls |-> "UUID", data |-> Text(d)] :
        d \in { <<"{", "A", "B", "C", "D", "E", "F", "0", "1", "-", "2", "3", "4", "5", "-", "6", "7", "8", "9", "-", "A", "B", "C", "D", "-", "E", "F", "0", "1", "2", "3", "4", "5", "6", "7", "8", "9", "}">>,
                <<"1", "2", "3", "4">> } }

\* JSON objects of the records, with none of their keys a stranger to the record
Objects ==
    { [typeCls |-> "JobStatus", data |->
         dict(<<>>)],
      [typeCls |-> "JobStatus", data |->
         dict(<< <<<<"p", "r", "o", "g", "r", "e", "s", "s">>, PyFloat(1, 2)>> >>)],
      [typeCls |-> "JobStatus", data |->
         dict(<< <<<<"s", "t", "a", "r", "t">>, Text(<<"2", "0", "2", "0", "-", "0", "1", "-", "0", "2", "T", "0", "3", ":", "0", "4", ":", "0", "5", "Z">>)>>,
                 <<<<"s", "t", "a", "t", "u", "s">>, Text(<<"r", "a", "n", "T", "o", "C", "o", "m", "p", "l", "e", "t", "i", "o", "n">>)>>,
                 <<<<"p", "r", "o", "g", "r", "e", "s", "s">>, PyFloat(1, 1)>>,
                 <<<<"e", "x", "c", "e", "p", "t", "i", "o", "n", "M", "e", "s", "s", "a", "g", "e">>, None>>,
                 <<<<"r", "e", "s", "u", "l", "t">>, Text(<<"a", "r", "t", "i", "f", "a", "c", "t">>)>> >>)],
      [typeCls |-> "JobStatus", data |->
         dict(<< <<<<"s", "t", "a", "t", "u", "s">>, Text(<<"b", "o", "g", "u", "s">>)>>,
                 <<<<"p", "r", "o", "g", "r", "e", "s", "s">>, PyFloat(1, 2)>> >>)],
      [typeCls |-> "JobStatus", data |->
         dict(<< <<<<"P", "r", "o", "g", "r", "e", "s", "s">>, PyFloat(1, 1)>>,
                 <<<<"p", "r", "o", "g", "r", "e", "s", "s">>, PyFloat(1, 2)>>,
                 <<<<"e", "x", "c", "e", "p", "t", "i", "o", "n", "_", "m", "e", "s", "s", "a", "g", "e">>, Text(<<"l", "a", "t", "e">>)>> >>)],
      [typeCls |-> "Representation", data |->
         dict(<<>>)],
      [typeCls |-> "Representation", data |->
         dict(<< <<<<"d", "a", "t", "a", "T", "y", "p", "e">>, Text(<<"f", "l", "o", "a", "t", "6", "4">>)>>,
                 <<<<"s", "a", "m", "p", "l", "e", "P", "e", "r", "i", "o", "d">>, Text(<<"0", "0", ":", "0", "0", ":", "0", "1">>)>>,
                 <<<<"p", "a", "r", "a", "m", "e", "t", "e", "r", "s">>, dict(<< <<<<"a">>, PyInt(1)>> >>)>> >>)],
      [typeCls |-> "Resource", data |->
         dict(<<>>)],
      [typeCls |-> "Resource", data |->
         dict(<< <<<<"i", "d">>, Text(<<"T", "1">>)>>,
                 <<<<"r", "e", "p", "r", "e", "s", "e", "n", "t", "a", "t", "i", "o", "n", "s">>, list(<< dict(<< <<<<"d", "a", "t", "a", "T", "y", "p", "e">>, Text(<<"i", "n", "t", "8">>)>>,
                                  <<<<"s", "a", "m", "p", "l", "e", "P", "e", "r", "i", "o", "d">>, Text(<<"0", "0", ":", "1", "0", ":", "0", "0">>)>>,
                                  <<<<"k", "i", "n", "d">>, Text(<<"x">>)>> >>) >>)>> >>)],
      [typeCls |-> "CatalogAvailability", data |->
         dict(<<>>)],
      [typeCls |-> "CatalogAvailability", data |->
         dict(<< <<<<"d", "a", "t", "a">>, list(<<PyFloat(1, 2), PyFloat(1, 1)>>)>> >>)],
      [typeCls |-> "PackageReference", data |->
         dict(<<>>)],
      [typeCls |-> "PackageReference", data |->
         dict(<< <<<<"p", "r", "o", "v", "i", "d", "e", "r">>, Text(<<"l", "o", "c", "a", "l">>)>>,
                 <<<<"c", "o", "n", "f", "i", "g", "u", "r", "a", "t", "i", "o", "n">>, dict(<< <<<<"p", "a", "t", "h">>, Text(<<"x">>)>> >>)>> >>)],
      [typeCls |-> "Counter", data |->
         dict(<<>>)],
      [typeCls |-> "Counter", data |->
         dict(<< <<<<"c", "o", "u", "n", "t">>, PyInt(3)>>,
                 <<<<"e", "n", "a", "b", "l", "e", "d">>, [t |-> "bool", v |-> TRUE]>> >>)],
      [typeCls |-> "Counter", data |->
         dict(<< <<<<"l", "i", "m", "i", "t">>, PyInt(5)>> >>)] }

\* keys that after name-decoding name no field of any of the records
Extras ==
    { << <<<<"b", "o", "g", "u", "s">>, PyInt(1)>> >>,
      << <<<<"c", "l", "a", "s", "s">>, Text(<<"x">>)>>,
         <<<<"s", "a", "m", "p", "l", "e", "R", "a", "t", "e">>, None>> >>,
      << <<<<"e", "x", "c", "e", "p", "t", "i", "o", "n", "-", "m", "e", "s", "s", "a", "g", "e">>, dict(<<>>)>> >> }

ObjectDocuments ==
    Objects
    \cup { [typeCls |-> o.typeCls, data |-> dict(o.data.items \o e)] : o \in Objects, e \in Extras }
    \cup { [typeCls |-> o.typeCls, data |-> dict(e \o o.data.items)] : o \in Objects, e \in Extras }

Documents ==
    EnumDocuments \cup DurationDocuments \cup DateTimeDocuments \cup UUIDDocuments
    \cup ObjectDocuments

InitCodec ==
    /\ ExportIdle
    /\ client = NexusClient
    /\ scopes = NoScopes
    /\ call = None
    /\ loader = None
    /\ data_model = None
    /\ codec \in { [pc |-> "encode", typeCls |-> v.typeCls, value |-> v.value,
                    data |-> None, result |-> None] : v \in Values }
            \cup { [pc |-> "decode", typeCls |-> d.typeCls, value |-> None,
                    data |-> d.data, result |-> None] : d \in Documents }

CodecRest == <<Args, sync, async, client, scopes, call, loader, data_model>>

\* data = JsonEncoder.encode(value, _json_encoder_options)
Encode ==
    /\ codec.pc = "encode"
    /\ codec' = [codec EXCEPT !.pc = "decode", !.data = JsonEncoder_encode(codec.value)]
    /\ UNCHANGED CodecRest

\* result = JsonEncoder.decode(typeCls, data, _json_encoder_options)
Decode ==
    /\ codec.pc = "decode"
    /\ codec' = [codec EXCEPT !.pc = "done",
                              !.result = JsonEncoder_decode(codec.typeCls, codec.data)]
    /\ UNCHANGED CodecRest

NextCodec ==
    \/ Encode
    \/ Decode

CodecSpec == InitCodec /\ [][NextCodec]_vars

(***************************************************************************)
(* Properties of the codec.                                                *)
(***************************************************************************)
Encoded == codec # None /\ codec.value # None /\ codec.pc \in {"decode", "done"}
RoundTrip == codec # None /\ codec.value # None /\ codec.pc = "done"

\* C15: an encoded enum member is the name of the member in camelCase
\* (RAN_TO_COMPLETION gives "ranToCompletion"), and decoding that string for
\* the enum gives the member again.
C15_EnumCamelCase ==
    /\ (Encoded /\ codec.typeCls \in Enums) =>
        codec.data = Text(CamelCase(name(codec.typeCls, codec.value)))
    /\ (codec # None /\ codec.pc = "done" /\ codec.typeCls \in Enums /\ codec.value = None
            /\ \E n \in __members__(codec.typeCls) : codec.data = Text(CamelCase(n))) =>
        codec.data = Text(CamelCase(name(codec.typeCls, codec.result)))


\* C14: with the client's options decode(T, encode(x)) = x for every UUID,
\* every date-time (naive or aware, with or without microseconds), every
\* duration (zero, negative, a hundred days and more) and every enum member.
C14_RoundTrip == RoundTrip => codec.result = codec.value

\* 1 day 2 h 3 min 4 s 500000 microseconds, and its text
ExampleDuration == [t |-> "timedelta", days |-> 1, seconds |-> 7384, microseconds |-> 500000]
ExampleDurationText == Text(<<"1", ".", "0", "2", ":", "0", "3", ":", "0", "4", ".", "5", "0", "0", "0", "0", "0", "0">>)

\* the text is: days, ".", HH, ":", MM, ":", SS, ".", six digits, "0"
IsDurationText(chars, value) ==
    LET n == Len(chars)
        days == SubSeq(chars, 1, n - 17)
        at(i) == chars[n - 17 + i]
        two(i) == <<at(i), at(i + 1)>>
    IN  /\ n >= 18
        /\ IF value.days < 0
           THEN days[1] = "-" /\ int(Tail(days)) = PyInt(0 - value.days)
           ELSE int(days) = PyInt(value.days)
        /\ at(1) = "." /\ at(4) = ":" /\ at(7) = ":" /\ at(10) = "." /\ at(17) = "0"
        /\ int(two(2)) = PyInt(value.seconds \div 3600)
        /\ int(two(5)) = PyInt((value.seconds % 3600) \div 60)
        /\ int(two(8)) = PyInt(value.seconds % 60)
        /\ int(SubSeq(chars, n - 6, n - 1)) = PyInt(value.microseconds)

\* C16: an encoded duration is days, ".", two-digit hours, ":", two-digit
\* minutes, ":", two-digit seconds, ".", the six-digit microseconds and one
\* trailing "0"; 1 day 2 h 3 min 4 s 500000 microseconds gives
\* "1.02:03:04.5000000", which decodes to that duration; "12:08:07", with no
\* days and no fraction, decodes to 12 h 8 min 7 s.
C16_DurationFormat ==
    /\ (Encoded /\ codec.typeCls = "timedelta") =>
        /\ codec.data.t = "str"
        /\ IsDurationText(codec.data.chars, codec.value)
    /\ (Encoded /\ codec.value = ExampleDuration) => codec.data = ExampleDurationText
    /\ (codec # None /\ codec.pc = "done" /\ codec.data = ExampleDurationText) =>
        codec.result = ExampleDuration
    /\ (codec # None /\ codec.pc = "done" /\ codec.typeCls = "timedelta"
            /\ codec.data = Text(<<"1", "2", ":", "0", "8", ":", "0", "7">>)) =>
        codec.result = [t |-> "timedelta", days |-> 0, seconds |-> 43687, microseconds |-> 0]

C16_Witness ==
    /\ RoundTrip
    /\ codec.value = ExampleDuration
    /\ codec.data = ExampleDurationText
    /\ codec.result = ExampleDuration


Decoded(typeCls) == codec # None /\ codec.pc = "done" /\ codec.typeCls = typeCls

\* the fields a record declares: the annotated names that are no class variables
Fields(typeCls) ==
    { h \in Range(get_type_hints(typeCls)) : get_origin(h[2]) # Origin("ClassVar") }

\* C17: decoding the empty JSON object for a record type gives an instance
\* whose int fields are 0, whose float fields are 0.0 and whose other fields
\* are None, with no declared field left unset.
C17_EmptyObjectDefaults ==
    \A typeCls \in Records :
        (Decoded(typeCls) /\ codec.data = dict(<<>>)) =>
            /\ codec.result.t = typeCls
            /\ DOMAIN codec.result.fields = { join(h[1]) : h \in Fields(typeCls) }
            /\ \A h \in Fields(typeCls) :
                codec.result.fields[join(h[1])] =
                    CASE h[2] = "int" -> PyInt(0)
                      [] h[2] = "float" -> PyFloat(0, 1)
                      [] OTHER -> None

C17_Witness ==
    /\ Decoded("Counter")
    /\ codec.data = dict(<<>>)
    /\ codec.result = [t |-> "Counter",
                       fields |-> [count |-> PyInt(0), ratio |-> PyFloat(0, 1),
                                   label |-> None, enabled |-> None]]

\* the keys of a JSON object that after name-decoding name no annotation of
\* the record, and the object without them
IsUnknown(typeCls, key) ==
    \A h \in Range(get_type_hints(typeCls)) :
        h[1] # _json_encoder_options_property_name_decoder(key)
Unknown(typeCls, data) ==
    { i \in 1..Len(data.items) : IsUnknown(typeCls, data.items[i][1]) }
RECURSIVE WithoutUnknown(_, _)
WithoutUnknown(typeCls, items) ==
    IF items = <<>> THEN <<>>
    ELSE (IF IsUnknown(typeCls, items[1][1]) THEN <<>> ELSE <<items[1]>>)
            \o WithoutUnknown(typeCls, Tail(items))

\* C18: keys that after name-decoding match no declared field never make the
\* decoding of a JSON object fail and do not change its result:
\* decode(T, obj with unknown keys) = decode(T, obj).
C18_UnknownKeysIgnored ==
    \A typeCls \in Records :
        Decoded(typeCls) =>
            codec.result =
                JsonEncoder_decode(typeCls, dict(WithoutUnknown(typeCls, codec.data.items)))

C18_Witness ==
    /\ Decoded("JobStatus")
    /\ Unknown("JobStatus", codec.data) # {}
    /\ codec.result = [t |-> "JobStatus",
                       fields |-> [start |-> None, status |-> None, progress |-> PyFloat(1, 2),
                                   exception_message |-> None, result |-> None]]


(***************************************************************************)
(* NexusClient.load, one operator per step between two interactions with   *)
(* the server.  A frame holds the locals of the call, the responses it was *)
(* given and what it did, in order.                                        *)
(***************************************************************************)
MaxResources == 2   \* resource paths of one load

InitLoader(resource_paths) ==
    [pc |-> "search", resource_paths |-> resource_paths, catalog_item_map |-> <<>>,
     i |-> 1, response |-> None, responses |-> <<>>, result |-> <<>>,
     progress |-> PyInt(0), events |-> <<>>, exc |-> None, value |-> None]

\* CatalogsClient.search_catalog_items and DataClient.get_stream
CatalogsClient_search_catalog_items(sent) == _invoke("dict[str, CatalogItem]", sent)
DataClient_get_stream(sent) == _invoke("Response", sent)

\* array("d", byteBuffer): every eight bytes are one double
array_d(byteBuffer) ==
    [t |-> "array", typecode |-> "d",
     items |-> [k \in 1..(Len(byteBuffer) \div 8) |-> SubSeq(byteBuffer, 8 * k - 7, 8 * k)]]

\* (a faulty variant: any length accepted, the bytes left over dropped)
_read_as_double_unchecked(response) == array_d(response.text.content)

\* NexusClient._read_as_double
_read_as_double(response) ==
    LET byteBuffer == response.text.content
    IN  IF Len(byteBuffer) % 8 # 0 THEN Exception("The data length is invalid.")
        ELSE array_d(byteBuffer)

DataResponse(catalog_item, id, unit, description, sample_period, values) ==
    [catalog_item |-> catalog_item, name |-> id, unit |-> unit,
     description |-> description, sample_period |-> sample_period, values |-> values]

\* progress + 1.0 / n, the progress being k / n
add_progress(progress, n) ==
    IF progress.t = "int" THEN PyFloat(1, n) ELSE PyFloat(progress.n + 1, n)

\* catalog_item_map = self.v1.catalogs.search_catalog_items(list(resource_paths));
\* the loop over no item returns the empty result
load_search(f, sent) ==
    LET r == CatalogsClient_search_catalog_items(sent)
        searched == [f EXCEPT !.events = Append(@, [e |-> "search"])]
    IN  IF r.exc # None THEN [searched EXCEPT !.pc = "raised", !.exc = r.exc]
        ELSE IF r.value.items = <<>>
        THEN [searched EXCEPT !.pc = "returned", !.value = dict(<<>>)]
        ELSE [searched EXCEPT !.pc = "get_stream", !.catalog_item_map = r.value.items]

\* response = self.v1.data.get_stream(resource_path, begin, end)
load_get_stream(f, sent) ==
    LET resource_path == f.catalog_item_map[f.i][1]
        r == DataClient_get_stream(sent)
        requested == [f EXCEPT !.events = Append(@, [e |-> "get_stream", path |-> resource_path]),
                               !.responses = Append(@, [response |-> sent, closed |-> r.closed])]
    IN  IF r.exc # None THEN [requested EXCEPT !.pc = "raised", !.exc = r.exc]
        ELSE [requested EXCEPT !.pc = "read", !.response = r.value]

\* the rest of the body of the loop: the response read and closed, the
\* DataResponse stored, the progress reported; then the next item or the return
load_read(f, report) ==
    LET resource_path == f.catalog_item_map[f.i][1]
        catalog_item == f.catalog_item_map[f.i][2]
        double_data == _read_as_double(f.response)
        closed == [f EXCEPT !.responses[f.i].closed = TRUE,
                            !.events = @ \o << [e |-> "read", path |-> resource_path],
                                               [e |-> "close", path |-> resource_path] >>]
        resource == catalog_item.resource
        has(key) == /\ resource.properties # None
                    /\ key \in DOMAIN resource.properties.v
                    /\ resource.properties.v[key].t = "str"
        unit == IF has("unit") THEN resource.properties.v["unit"] ELSE None
        description == IF has("description") THEN resource.properties.v["description"] ELSE None
        sample_period == catalog_item.representation.sample_period
        result == Append(f.result,
                         <<resource_path,
                           DataResponse(catalog_item, resource.id, unit, description,
                                        sample_period, double_data)>>)
        progress == add_progress(f.progress, Len(f.catalog_item_map))
        stored == [closed EXCEPT !.result = result, !.progress = progress,
                                 !.events = IF report
                                            THEN Append(@, [e |-> "on_progress", progress |-> progress])
                                            ELSE @]
    IN  IF is_raised(double_data)
        THEN [closed EXCEPT !.pc = "raised", !.exc = double_data]
        ELSE IF f.i < Len(f.catalog_item_map)
        THEN [stored EXCEPT !.pc = "get_stream", !.i = f.i + 1, !.response = None]
        ELSE [stored EXCEPT !.pc = "returned", !.value = dict(result), !.response = None]


(***************************************************************************)
(* load under its callers: the resource paths and the callback are the     *)
(* arguments, the server answers the search with the catalog items of the  *)
(* paths and every data request with a body of some length or an error.    *)
(***************************************************************************)
AllPaths == <<"/SAMPLE/LOCAL/T1/1_s", "/SAMPLE/LOCAL/V1/1_s", "/SAMPLE/LOCAL/P1/1_s">>

\* the properties of the three resources: a unit and a description, none at
\* all, a unit that is no string
Properties ==
    <<[t |-> "dict", v |-> [unit |-> PyStr("degC"), description |-> PyStr("Temperature")]],
      None,
      [t |-> "dict", v |-> [unit |-> PyInt(1)]]>>

CatalogItem(k) ==
    [resource |-> [id |-> PyStr("R" \o ToString(k)), properties |-> Properties[k]],
     representation |-> [sample_period |-> [t |-> "timedelta", days |-> 0, seconds |-> 1,
                                            microseconds |-> 0]]]

\* the paths of a set of resources, in the order of AllPaths
RECURSIVE Ordered(_, _)
Ordered(S, k) ==
    IF k > Len(AllPaths) THEN <<>>
    ELSE (IF k \in S THEN <<k>> ELSE <<>>) \o Ordered(S, k + 1)

ResourcePaths ==
    { Ordered(S, 1) : S \in { T \in SUBSET (1..Len(AllPaths)) : Cardinality(T) <= MaxResources } }

\* the answer to the search: the catalog items of the paths, or an error
SearchSends(resource_paths) ==
    { Response(200, JsonText(dict([j \in 1..Len(resource_paths) |->
            <<AllPaths[resource_paths[j]], CatalogItem(resource_paths[j])>>])), NoHeaders),
      Response(404, PlainText(""), NoHeaders) }

\* a body of n bytes
Bytes(n) == [content |-> [j \in 1..n |-> j]]

\* the answers to a data request: bodies of 0, 8, 12 and 16 bytes, or an error
StreamSends ==
    { Response(200, Bytes(n), NoHeaders) : n \in {0, 8, 12, 16} }
    \cup { Response(404, PlainText(""), NoHeaders) }

InitLoad ==
    /\ file_format = None
    /\ on_progress \in {None, Callable}
    /\ history = TRUE
    /\ sync = InitFrame
    /\ async = InitFrame
    /\ client = NexusClient
    /\ scopes = NoScopes
    /\ call = None
    /\ codec = None
    /\ data_model = None
    /\ loader \in { InitLoader(resource_paths) : resource_paths \in ResourcePaths }

LoadRest == <<Args, sync, async, client, scopes, call, codec, data_model>>

LoadSearch ==
    /\ loader.pc = "search"
    /\ \E sent \in SearchSends(loader.resource_paths) : loader' = load_search(loader, sent)
    /\ UNCHANGED LoadRest

LoadGetStream ==
    /\ loader.pc = "get_stream"
    /\ \E sent \in StreamSends : loader' = load_get_stream(loader, sent)
    /\ UNCHANGED LoadRest

LoadRead ==
    /\ loader.pc = "read"
    /\ loader' = load_read(loader, on_progress # None)
    /\ UNCHANGED LoadRest

NextLoad ==
    \/ LoadSearch
    \/ LoadGetStream
    \/ LoadRead

LoadSpec == InitLoad /\ [][NextLoad]_vars


(***************************************************************************)
(* Properties of load.                                                     *)
(***************************************************************************)
\* the k-th data request was answered with a body, and the body has been read
WasRead(k) ==
    /\ k \in 1..Len(loader.responses)
    /\ is_success(loader.responses[k].response)
    /\ (k < Len(loader.responses) \/ loader.pc # "read")
Body(k) == loader.responses[k].response.text.content
CountOf(events, e) == Cardinality({ p \in 1..Len(events) : events[p].e = e })

\* C19: in load a body whose length is no multiple of 8 makes load raise at
\* once, after the response of that stream is closed, with no further
\* resource fetched and no partial result returned; a body of 8 n bytes gives
\* n samples (16 bytes give 2); every stream response is closed before the
\* next resource is requested.
C19_InvalidLengthRaises ==
    loader # None =>
        /\ \A k \in 1..Len(loader.responses) :
            (WasRead(k) /\ Len(Body(k)) % 8 # 0) =>
                /\ loader.pc = "raised"
                /\ loader.exc = Exception("The data length is invalid.")
                /\ loader.value = None
                /\ k = Len(loader.responses)
                /\ loader.responses[k].closed
                /\ loader.events[Len(loader.events)] =
                        [e |-> "close", path |-> loader.catalog_item_map[k][1]]
        /\ \A k \in 1..Len(loader.responses) :
            (WasRead(k) /\ Len(Body(k)) % 8 = 0) =>
                /\ Len(loader.result) >= k
                /\ loader.result[k][1] = loader.catalog_item_map[k][1]
                /\ Len(loader.result[k][2].values.items) * 8 = Len(Body(k))
                /\ Len(Body(k)) = 16 => Len(loader.result[k][2].values.items) = 2
        /\ \A p \in 1..Len(loader.events) :
            loader.events[p].e = "get_stream" =>
                /\ CountOf(SubSeq(loader.events, 1, p - 1), "close")
                        = CountOf(SubSeq(loader.events, 1, p - 1), "get_stream")
                /\ \A k \in 1..(CountOf(SubSeq(loader.events, 1, p), "get_stream") - 1) :
                        loader.responses[k].closed

C19_Witness ==
    /\ loader # None
    /\ loader.pc = "raised"
    /\ loader.exc = Exception("The data length is invalid.")
    /\ Len(loader.catalog_item_map) = 2
    /\ Len(loader.responses) = 1
    /\ Len(Body(1)) = 12
    /\ loader.responses[1].closed

(***************************************************************************)
(* The extensibility data model (nexus_extensibility).  An identifier is a *)
(* text, taken apart into its characters.                                  *)
(***************************************************************************)
\* the character classes [a-zA-Z_] and [a-zA-Z_0-9]
IdStart(c) == isupper(c) \/ islower(c) \/ c = "_"
IdChar(c) == IdStart(c) \/ isdigit(c)

\* the regular expression $ (re.MULTILINE not set) after n characters of
\* value: at the end of the text, and before a newline that ends the text
AtDollar(value, n) ==
    \/ n = Len(value)
    \/ n = Len(value) - 1 /\ value[Len(value)] = "\n"

\* [a-zA-Z_][a-zA-Z_0-9]* after n characters of value: where a match can end
IdEnds(value, n) ==
    { e \in (n + 1)..Len(value) :
        IdStart(value[n + 1]) /\ \A k \in (n + 2)..e : IdChar(value[k]) }

\* (?:\/[a-zA-Z_][a-zA-Z_0-9]*)+ after n characters of value: where a match
\* can end
RECURSIVE SegmentsEnds(_, _)
SegmentsEnds(value, n) ==
    IF n + 1 > Len(value) \/ value[n + 1] # "/" THEN {}
    ELSE LET ends == IdEnds(value, n + 1)
         IN  ends \cup UNION { SegmentsEnds(value, e) : e \in ends }

(***************************************************************************)
(* Floating point.  A float is the double m / 2^f: m the binary digits of  *)
(* the significand, most significant first and without leading zeros, at   *)
(* most `Significand` of them; f the number of digits behind the point.    *)
(* Only non-negative values occur.                                         *)
(***************************************************************************)
Significand == 53

RECURSIVE Bits(_)
Bits(n) == IF n = 0 THEN <<>> ELSE Append(Bits(n \div 2), n % 2)
RECURSIVE FromBits(_)
FromBits(b) ==
    IF b = <<>> THEN 0 ELSE 2 * FromBits(SubSeq(b, 1, Len(b) - 1)) + b[Len(b)]

\* b + 1
RECURSIVE Increment(_)
Increment(b) ==
    IF b = <<>> THEN <<1>>
    ELSE IF b[Len(b)] = 0 THEN [b EXCEPT ![Len(b)] = 1]
    ELSE Append(Increment(SubSeq(b, 1, Len(b) - 1)), 0)

\* the double nearest to (b + rest) / 2^f, ties to even; rest says that the
\* exact value has non-zero digits behind those of b
RoundToDouble(b, rest, f) ==
    IF Len(b) <= Significand THEN [t |-> "float", m |-> b, f |-> f]
    ELSE LET keep == SubSeq(b, 1, Significand)
             guard == b[Significand + 1]
             sticky == rest \/ \E i \in (Significand + 2)..Len(b) : b[i] = 1
             up == guard = 1 /\ (sticky \/ keep[Significand] = 1)
             dropped == Len(b) - Significand
             rounded == IF up THEN Increment(keep) ELSE keep
         IN  IF Len(rounded) > Significand
             THEN [t |-> "float", m |-> SubSeq(rounded, 1, Significand),
                   f |-> f - dropped - 1]
             ELSE [t |-> "float", m |-> rounded, f |-> f - dropped]

\* float(n) of an int
float(n) == [t |-> "float", m |-> Bits(n), f |-> 0]

\* the w binary digits of n < 2^w
PadBits(n, w) == LET b == Bits(n) IN [i \in 1..(w - Len(b)) |-> 0] \o b

\* long division of (digits . 000...) by d, ten binary digits at a time: r
\* the remainder so far, q the digits of the quotient so far, f the digits
\* taken behind the point
RECURSIVE LongDivision(_, _, _, _, _)
LongDivision(digits, d, r, q, f) ==
    IF digits = <<>> /\ (r = 0 \/ Len(q) >= Significand + 2)
    THEN RoundToDouble(q, r # 0, f)
    ELSE LET w == IF digits = <<>> \/ Len(digits) > 10 THEN 10 ELSE Len(digits)
             taken == IF digits = <<>> THEN 0 ELSE FromBits(SubSeq(digits, 1, w))
             carried == r * (2 ^ w) + taken
             quotient == carried \div d
         IN  LongDivision(IF digits = <<>> THEN <<>> ELSE SubSeq(digits, w + 1, Len(digits)),
                          d, carried % d,
                          IF q = <<>> THEN Bits(quotient) ELSE q \o PadBits(quotient, w),
                          IF digits = <<>> THEN f + w ELSE f)

\* n / d of two ints, n >= 0 and 0 < d < 2^20: the nearest double
truediv(n, d) == LongDivision(Bits(n), d, 0, <<>>, 0)

\* the digits of b * c + carry for an int c, 0 < c < 2^20, ten binary digits
\* of b at a time
RECURSIVE MultiplyBits(_, _, _)
MultiplyBits(b, c, carry) ==
    IF b = <<>> THEN Bits(carry)
    ELSE LET w == IF Len(b) > 10 THEN 10 ELSE Len(b)
             product == FromBits(SubSeq(b, Len(b) - w + 1, Len(b))) * c + carry
         IN  MultiplyBits(SubSeq(b, 1, Len(b) - w), c, product \div (2 ^ w))
                \o PadBits(product % (2 ^ w), w)

\* x * c of a float and the float of an int c: the nearest double
mul(x, c) == RoundToDouble(MultiplyBits(x.m, c, 0), FALSE, x.f)

\* x.is_integer() and int(x) of a float below 2^31
is_integer(x) == \A i \in 1..Len(x.m) : i > Len(x.m) - x.f => x.m[i] = 0
trunc(x) == IF Len(x.m) <= x.f THEN 0 ELSE FromBits(SubSeq(x.m, 1, Len(x.m) - x.f))

\* divmod(x, d) of a float and an int: fmod is exact, so the remainder of a
\* value that is no integer is not zero
divmod(x, d) ==
    IF is_integer(x)
    THEN [quotient |-> float(trunc(x) \div d), remainder_is_zero |-> trunc(x) % d = 0]
    ELSE [quotient |-> float(trunc(x) \div d), remainder_is_zero |-> FALSE]

\* timedelta.total_seconds():
\* (self.days * 86400 + self.seconds) * 10**6 + self.microseconds) / 10**6
total_seconds(self) ==
    truediv((self.days * 86400 + self.seconds) * 1000000 + self.microseconds, 1000000)

(***************************************************************************)
(* _data_model_extensions.py                                               *)
(***************************************************************************)
_quotients == <<1000, 1000, 60, 1>>
_post_fixes == << <<"u", "s">>, <<"m", "s">>, <<"s">>, <<"m", "i", "n">> >>

\* the loop of to_unit_string from its i-th turn on
RECURSIVE to_unit_string_loop(_, _)
to_unit_string_loop(current_value, i) ==
    IF i > Len(_post_fixes)
    THEN str(trunc(current_value)) \o <<"_">> \o _post_fixes[Len(_post_fixes)]
    ELSE LET qr == divmod(current_value, _quotients[i])
         IN  IF ~qr.remainder_is_zero
             THEN str(trunc(current_value)) \o <<"_">> \o _post_fixes[i]
             ELSE to_unit_string_loop(qr.quotient, i + 1)

\* to_unit_string(sample_period)
to_unit_string(sample_period) ==
    to_unit_string_loop(mul(total_seconds(sample_period), 1000000), 1)

(***************************************************************************)
(* _data_model_utilities.py, _data_model.py.  A text is Text(chars); a     *)
(* dict is dict(items) with items the <<key, value>> pairs in insertion    *)
(* order, keys as characters; a list is list(items).                       *)
(***************************************************************************)
\* format(value) of a replacement field of an f-string
format(value) ==
    IF value = None THEN <<"N", "o", "n", "e">>
    ELSE IF value.t = "int" THEN str(value.v)
    ELSE value.chars

\* ",".join(parts)
RECURSIVE join_comma(_)
join_comma(parts) ==
    IF parts = <<>> THEN <<>>
    ELSE IF Len(parts) = 1 THEN parts[1]
    ELSE parts[1] \o <<",">> \o join_comma(Tail(parts))

\* _get_representation_parameter_string(parameters)
_get_representation_parameter_string(parameters) ==
    IF parameters = None THEN None
    ELSE LET serialized_parameters ==
                [i \in 1..Len(parameters.items) |->
                    parameters.items[i][1] \o <<"=">> \o format(parameters.items[i][2])]
         IN  Text(<<"(">> \o join_comma(serialized_parameters) \o <<")">>)

\* NexusDataType, the values of its members
_nexus_data_type_values == {264, 520, 272, 528, 288, 544, 320, 576, 800, 832}

\* a <= b of two timedelta
timedelta_le(a, b) ==
    \/ a.days < b.days
    \/ a.days = b.days /\ a.seconds < b.seconds
    \/ a.days = b.days /\ a.seconds = b.seconds /\ a.microseconds <= b.microseconds

\* str(self) of a timedelta
str_timedelta(self) ==
    LET hh == self.seconds \div 3600
        mm == (self.seconds \div 60) % 60
        ss == self.seconds % 60
        magnitude == IF self.days < 0 THEN 0 - self.days ELSE self.days
        days == IF self.days = 0 THEN <<>>
                ELSE str(self.days) \o <<" ", "d", "a", "y">>
                        \o (IF magnitude # 1 THEN <<"s">> ELSE <<>>) \o <<",", " ">>
        microseconds == IF self.microseconds = 0 THEN <<>>
                        ELSE <<".">> \o zfill(self.microseconds, 6)
    IN  days \o str(hh) \o <<":">> \o zfill(mm, 2) \o <<":">> \o zfill(ss, 2)
            \o microseconds

\* Resource.valid_id_expression.match(value): ^[a-zA-Z_][a-zA-Z_0-9]*$
Resource_valid_id_expression_match(value) ==
    \E e \in IdEnds(value, 0) : AtDollar(value, e)

\* ResourceCatalog.valid_id_expression.match(value):
\* (?:\/[a-zA-Z_][a-zA-Z_0-9]*)+$
ResourceCatalog_valid_id_expression_match(value) ==
    \E e \in SegmentsEnds(value, 0) : AtDollar(value, e)

\* Representation._validate_parameters: None, or what it raises
_validate_parameters(parameters) ==
    IF \E i \in 1..Len(parameters.items) :
            ~Resource_valid_id_expression_match(parameters.items[i][1])
    THEN Exception("The representation parameter identifier is not valid.")
    ELSE None

\* Representation(data_type, sample_period, parameters): the instance, or what
\* __post_init__ raises
Representation(data_type, sample_period, parameters) ==
    IF data_type.v \notin _nexus_data_type_values
    THEN Exception("The data type " \o join(format(data_type)) \o " is not valid.")
    ELSE IF timedelta_le(sample_period, timedelta(0, 0, 0, 0, 0))
    THEN Exception("The sample period " \o join(str_timedelta(sample_period))
                        \o " is not valid.")
    ELSE IF parameters # None /\ _validate_parameters(parameters) # None
    THEN _validate_parameters(parameters)
    ELSE [t |-> "Representation", data_type |-> data_type,
          sample_period |-> sample_period, parameters |-> parameters]

\* Representation.id
Representation_id(self) == Text(to_unit_string(self.sample_period))

\* Resource._validate_representations: None, or what it raises
_validate_representations(representations) ==
    LET unique_ids == { Representation_id(representations.items[i]) :
                            i \in 1..Len(representations.items) }
    IN  IF Cardinality(unique_ids) # Len(representations.items)
        THEN Exception("There are multiple representations with the same identifier.")
        ELSE None

\* Resource(id, properties, representations): the instance, or what
\* __post_init__ raises
Resource(id, properties, representations) ==
    IF ~Resource_valid_id_expression_match(id.chars)
    THEN Exception("The resource catalog identifier " \o join(format(id))
                        \o " is not valid.")
    ELSE IF representations # None /\ _validate_representations(representations) # None
    THEN _validate_representations(representations)
    ELSE [t |-> "Resource", id |-> id, properties |-> properties,
          representations |-> representations]

\* (a faulty variant: two resources in a row compared only)
_validate_resources_neighbours(resources) ==
    IF \E i \in 1..(Len(resources.items) - 1) :
            resources.items[i].id = resources.items[i + 1].id
    THEN Exception("There are multiple resources with the same identifier.")
    ELSE None

\* ResourceCatalog._validate_resources: None, or what it raises
_validate_resources(resources) ==
    LET unique_ids == { resources.items[i].id : i \in 1..Len(resources.items) }
    IN  IF Cardinality(unique_ids) # Len(resources.items)
        THEN Exception("There are multiple resources with the same identifier.")
        ELSE None

\* ResourceCatalog(id, properties, resources): the instance, or what
\* __post_init__ raises
ResourceCatalog(id, properties, resources) ==
    IF ~ResourceCatalog_valid_id_expression_match(id.chars)
    THEN Exception("The resource catalog identifier " \o join(format(id))
                        \o " is not valid.")
    ELSE IF resources # None /\ _validate_resources(resources) # None
    THEN _validate_resources(resources)
    ELSE [t |-> "ResourceCatalog", id |-> id, properties |-> properties,
          resources |-> resources]

\* CatalogItem.to_path
CatalogItem_to_path(self) ==
    LET parameter_string == _get_representation_parameter_string(self.parameters)
    IN  Text(format(self.catalog.id) \o <<"/">> \o format(self.resource.id) \o <<"/">>
                \o format(Representation_id(self.representation))
                \o format(parameter_string))

(***************************************************************************)
(* The data model under its callers.  data_model is a call of a            *)
(* constructor or of a function with its arguments and, when it has been   *)
(* made, its result: the value returned or the exception raised.           *)
(***************************************************************************)
CatalogIds ==
    { <<"/", "a">>,
      <<"/", "_", "a">>,
      <<"/", "a", "b", "_", "c">>,
      <<"/", "a", "9", "_", "b", "/", "c", "_", "_", "9", "9">>,
      <<>>,
      <<"/">>,
      <<"/", "a", "/">>,
      <<"/", "9">>,
      <<"a">>,
      <<"/", "a", "\n">>,
      <<"/", "a", "\n", "\n">>,
      <<"/", "a", " ", "b">>,
      <<"/", "a", "/", "/", "b">>,
      <<"/", "A", "/", "B">> }
ResourceIds ==
    { <<"_", "t", "e", "m", "p">>,
      <<"t", "e", "m", "p">>,
      <<"T", "e", "m", "p">>,
      <<"T", "e", "m", "p", "_", "1">>,
      <<>>,
      <<"1", "t", "e", "m", "p">>,
      <<"t", "e", "m", " ", "p">>,
      <<"t", "e", "m", "-", "p">>,
      <<"t", "e", "m", "*", "p">>,
      <<"t", "e", "ß", "p">>,
      <<"t", "e", "m", "p", "\n">>,
      <<"\n", "t", "e", "m", "p">>,
      <<"T", "1">> }
ParameterKeys ==
    { <<"a">>,
      <<"a", "_", "1">>,
      <<"1", "a">>,
      <<"a", "\n">>,
      <<"b", " ", "c">> }

\* sample periods, in microseconds
Microseconds ==
    { 1, 10, 100, 249, 250, 251, 1000, 1001, 1500, 7000, 10000, 100000, 1000000,
      1001000, 1500000, 15000000, 60000000, 90000000, 120000000 }
SamplePeriods == { timedelta(0, 0, 0, 0, n) : n \in Microseconds }
NoPeriods == { timedelta(0, 0, 0, 0, 0), timedelta(-1, 0, 0, 0, 0), timedelta(0, 0, 0, -1, 250) }

DataTypes == { PyInt(800), PyInt(832), PyInt(0), PyInt(9999) }
FLOAT64 == PyInt(832)

Parameters ==
    { None, dict(<<>>),
      dict(<< << <<"b">>, Text(<<"2">>) >>, << <<"a">>, Text(<<"1">>) >> >>) }
        \cup { dict(<< <<key, Text(<<"1">>)>> >>) : key \in ParameterKeys }
        \cup { dict(<< << <<"a">>, PyInt(1) >>, <<key, Text(<<"x">>)>> >>) : key \in ParameterKeys }

\* lists of up to three of the representations of the periods of 250 and 251
\* microseconds, one second, 60 seconds and one minute
ListedPeriods ==
    << timedelta(0, 0, 0, 0, 250), timedelta(0, 0, 0, 0, 251), timedelta(0, 0, 0, 1, 0),
       timedelta(0, 0, 0, 60, 0), timedelta(0, 0, 1, 0, 0) >>
Lists(items) ==
    { list(<<>>) } \cup { list(<<items[i]>>) : i \in 1..Len(items) }
        \cup { list(<<items[i], items[j]>>) : i, j \in 1..Len(items) }
        \cup { list(<<items[i], items[j], items[k]>>) : i, j, k \in 1..Len(items) }
RepresentationLists ==
    Lists([i \in 1..Len(ListedPeriods) |-> Representation(FLOAT64, ListedPeriods[i], None)])
ResourceLists ==
    Lists(<< Resource(Text(<<"R", "1">>), None, None),
             Resource(Text(<<"R", "2">>), None, None),
             Resource(Text(<<"R", "2">>), dict(<<>>), None) >>)

CatalogItems ==
    { [catalog |-> ResourceCatalog(Text(id), None, None),
       resource |-> Resource(Text(<<"T", "1">>), None, None),
       representation |-> Representation(FLOAT64, sample_period, None),
       parameters |-> parameters] :
        id \in {<<"/", "A", "/", "B">>, <<"/", "a">>},
        sample_period \in {timedelta(0, 0, 0, 1, 0), timedelta(0, 0, 0, 0, 1500)},
        parameters \in {p \in Parameters : p = None \/ _validate_parameters(p) = None} }

Call(op, args) == [pc |-> "call", op |-> op, args |-> args, result |-> None]
Calls ==
    { Call("ResourceCatalog", [id |-> Text(id), properties |-> None, resources |-> None]) :
        id \in CatalogIds }
    \cup { Call("ResourceCatalog", [id |-> Text(id), properties |-> None,
                                     resources |-> resources]) :
            id \in {<<"/", "A", "/", "B">>, <<"/", "9">>}, resources \in ResourceLists }
    \cup { Call("Resource", [id |-> Text(id), properties |-> None,
                              representations |-> None]) : id \in ResourceIds }
    \cup { Call("Resource", [id |-> Text(id), properties |-> None,
                              representations |-> representations]) :
            id \in {<<"T", "1">>, <<"1", "T">>}, representations \in RepresentationLists }
    \cup { Call("Representation", [data_type |-> data_type,
                                    sample_period |-> sample_period,
                                    parameters |-> parameters]) :
            data_type \in DataTypes,
            sample_period \in NoPeriods \cup {timedelta(0, 0, 0, 1, 0), timedelta(0, 0, 1, 0, 0)},
            parameters \in Parameters }
    \cup { Call("to_unit_string", [sample_period |-> sample_period]) :
            sample_period \in SamplePeriods }
    \cup { Call("to_path", [self |-> item]) : item \in CatalogItems }

DataModelRest == <<Args, sync, async, client, scopes, call, codec, loader>>

Returned(result) == [data_model EXCEPT !.pc = "done", !.result = result]
Calling(op) == data_model.pc = "call" /\ data_model.op = op

\* ResourceCatalog(id, properties, resources)
NewResourceCatalog ==
    /\ Calling("ResourceCatalog")
    /\ data_model' = Returned(ResourceCatalog(data_model.args.id,
                        data_model.args.properties, data_model.args.resources))
    /\ UNCHANGED DataModelRest

\* Resource(id, properties, representations)
NewResource ==
    /\ Calling("Resource")
    /\ data_model' = Returned(Resource(data_model.args.id,
                        data_model.args.properties, data_model.args.representations))
    /\ UNCHANGED DataModelRest

\* Representation(data_type, sample_period, parameters)
NewRepresentation ==
    /\ Calling("Representation")
    /\ data_model' = Returned(Representation(data_model.args.data_type,
                        data_model.args.sample_period, data_model.args.parameters))
    /\ UNCHANGED DataModelRest

\* to_unit_string(sample_period)
ToUnitString ==
    /\ Calling("to_unit_string")
    /\ data_model' = Returned(Text(to_unit_string(data_model.args.sample_period)))
    /\ UNCHANGED DataModelRest

\* item.to_path()
ToPath ==
    /\ Calling("to_path")
    /\ data_model' = Returned(CatalogItem_to_path(data_model.args.self))
    /\ UNCHANGED DataModelRest

(***************************************************************************)
(* The builders.  The dict and the list of a builder are objects of a      *)
(* heap; a field that holds one holds its address, and so does the field   *)
(* of an instance that was constructed with it.  A frame m has the builder *)
(* (self), the heap, the instances built with what they were when built,   *)
(* and the exception of the last build that raised.                        *)
(***************************************************************************)
MaxBuilderCalls == 3   \* calls made on one builder

Ref(address) == [t |-> "ref", address |-> address]
Deref(heap, field) == IF field = None THEN None ELSE heap[field.address]

\* d[key] = value
setitem(d, key, value) ==
    IF \E i \in 1..Len(d.items) : d.items[i][1] = key
    THEN dict([i \in 1..Len(d.items) |->
                IF d.items[i][1] = key THEN <<key, value>> ELSE d.items[i]])
    ELSE dict(Append(d.items, <<key, value>>))

\* ResourceCatalogBuilder.__init__
ResourceCatalogBuilder(id) ==
    [t |-> "ResourceCatalogBuilder", _id |-> id, _properties |-> None,
     _resources |-> None]

\* ResourceCatalogBuilder.with_property
ResourceCatalogBuilder_with_property(m, key, value) ==
    LET n == IF m.self._properties = None
             THEN [m EXCEPT !.heap = Append(@, dict(<<>>)),
                            !.self._properties = Ref(Len(m.heap) + 1)]
             ELSE m
    IN  [n EXCEPT !.heap[n.self._properties.address] = setitem(@, key, value)]

\* ResourceCatalogBuilder.add_resources
ResourceCatalogBuilder_add_resources(m, resources) ==
    LET n == IF m.self._resources = None
             THEN [m EXCEPT !.heap = Append(@, list(<<>>)),
                            !.self._resources = Ref(Len(m.heap) + 1)]
             ELSE m
    IN  [n EXCEPT !.heap[n.self._resources.address] = list(@.items \o resources.items)]

\* ResourceCatalogBuilder.add_resource
ResourceCatalogBuilder_add_resource(m, resource) ==
    LET n == IF m.self._resources = None
             THEN [m EXCEPT !.heap = Append(@, list(<<>>)),
                            !.self._resources = Ref(Len(m.heap) + 1)]
             ELSE m
    IN  [n EXCEPT !.heap[n.self._resources.address] = list(Append(@.items, resource))]

\* ResourceCatalogBuilder.build: the constructor is handed the dict and the
\* list of the builder themselves
ResourceCatalogBuilder_build(m) ==
    LET made == ResourceCatalog(m.self._id, Deref(m.heap, m.self._properties),
                                Deref(m.heap, m.self._resources))
    IN  IF is_raised(made) THEN [m EXCEPT !.exc = made]
        ELSE [m EXCEPT
                !.exc = None,
                !.built = Append(@, [made EXCEPT !.properties = m.self._properties,
                                                 !.resources = m.self._resources]),
                !.when_built = Append(@, made)]

\* ResourceBuilder.__init__
ResourceBuilder(id) ==
    [t |-> "ResourceBuilder", _id |-> id, _properties |-> None,
     _representations |-> None]

\* ResourceBuilder.with_property
ResourceBuilder_with_property(m, key, value) ==
    LET n == IF m.self._properties = None
             THEN [m EXCEPT !.heap = Append(@, dict(<<>>)),
                            !.self._properties = Ref(Len(m.heap) + 1)]
             ELSE m
    IN  [n EXCEPT !.heap[n.self._properties.address] = setitem(@, key, value)]

\* ResourceBuilder.add_representations
ResourceBuilder_add_representations(m, representations) ==
    LET n == IF m.self._representations = None
             THEN [m EXCEPT !.heap = Append(@, list(<<>>)),
                            !.self._representations = Ref(Len(m.heap) + 1)]
             ELSE m
    IN  [n EXCEPT !.heap[n.self._representations.address] =
                        list(@.items \o representations.items)]

\* ResourceBuilder.add_representation
ResourceBuilder_add_representation(m, representation) ==
    LET n == IF m.self._representations = None
             THEN [m EXCEPT !.heap = Append(@, list(<<>>)),
                            !.self._representations = Ref(Len(m.heap) + 1)]
             ELSE m
    IN  [n EXCEPT !.heap[n.self._representations.address] =
                        list(Append(@.items, representation))]

\* ResourceBuilder.build
ResourceBuilder_build(m) ==
    LET made == Resource(m.self._id, Deref(m.heap, m.self._properties),
                         Deref(m.heap, m.self._representations))
    IN  IF is_raised(made) THEN [m EXCEPT !.exc = made]
        ELSE [m EXCEPT
                !.exc = None,
                !.built = Append(@, [made EXCEPT
                                        !.properties = m.self._properties,
                                        !.representations = m.self._representations]),
                !.when_built = Append(@, made)]

\* a builder that was just made
Building(self) ==
    [pc |-> "builder", self |-> self, heap |-> <<>>, built |-> <<>>,
     when_built |-> <<>>, exc |-> None, calls |-> 0]
Builders ==
    { Building(ResourceCatalogBuilder(Text(<<"/", "A">>))),
      Building(ResourceBuilder(Text(<<"T", "1">>))) }

PropertyKeys == { <<"u", "n", "i", "t">>, <<"k">> }
PropertyValues == { Text(<<"v", "1">>), Text(<<"v", "2">>) }
AddedResources ==
    { Resource(Text(<<"R", "1">>), None, None), Resource(Text(<<"R", "2">>), None, None) }
AddedRepresentations ==
    { Representation(FLOAT64, timedelta(0, 0, 0, 1, 0), None),
      Representation(FLOAT64, timedelta(0, 0, 1, 0, 0), None) }
Pairs(items) == { list(<<>>) } \cup { list(<<a, b>>) : a, b \in items }

IsCatalogBuilder == data_model.self.t = "ResourceCatalogBuilder"
CallBuilder ==
    /\ data_model.pc = "builder"
    /\ data_model.calls < MaxBuilderCalls
Called(m) == [m EXCEPT !.calls = @ + 1]

\* builder.with_property(key, value)
WithProperty ==
    /\ CallBuilder
    /\ \E key \in PropertyKeys : \E value \in PropertyValues :
        data_model' = Called(IF IsCatalogBuilder
                             THEN ResourceCatalogBuilder_with_property(data_model, key, value)
                             ELSE ResourceBuilder_with_property(data_model, key, value))
    /\ UNCHANGED DataModelRest

\* builder.add_resource(resource), builder.add_representation(representation)
AddOne ==
    /\ CallBuilder
    /\ IF IsCatalogBuilder
       THEN \E resource \in AddedResources :
                data_model' = Called(ResourceCatalogBuilder_add_resource(data_model, resource))
       ELSE \E representation \in AddedRepresentations :
                data_model' = Called(ResourceBuilder_add_representation(data_model,
                                                                        representation))
    /\ UNCHANGED DataModelRest

\* builder.add_resources(resources), builder.add_representations(representations)
AddSeveral ==
    /\ CallBuilder
    /\ IF IsCatalogBuilder
       THEN \E resources \in Pairs(AddedResources) :
                data_model' = Called(ResourceCatalogBuilder_add_resources(data_model, resources))
       ELSE \E representations \in Pairs(AddedRepresentations) :
                data_model' = Called(ResourceBuilder_add_representations(data_model,
                                                                         representations))
    /\ UNCHANGED DataModelRest

\* builder.build()
Build ==
    /\ CallBuilder
    /\ data_model' = Called(IF IsCatalogBuilder
                            THEN ResourceCatalogBuilder_build(data_model)
                            ELSE ResourceBuilder_build(data_model))
    /\ UNCHANGED DataModelRest

InitDataModel ==
    /\ ExportIdle
    /\ client = NexusClient
    /\ scopes = NoScopes
    /\ call = None
    /\ codec = None
    /\ loader = None
    /\ data_model \in Calls \cup Builders

NextDataModel ==
    \/ NewResourceCatalog
    \/ NewResource
    \/ NewRepresentation
    \/ ToUnitString
    \/ ToPath
    \/ WithProperty
    \/ AddOne
    \/ AddSeveral
    \/ Build

DataModelSpec == InitDataModel /\ [][NextDataModel]_vars

(***************************************************************************)
(* Properties of the data model.                                           *)
(***************************************************************************)
Done(op) == data_model.pc = "done" /\ data_model.op = op

\* a letter or underscore followed by letters, digits and underscores
IsIdentifier(value) ==
    /\ Len(value) >= 1
    /\ value[1] \in Range(UpperLetters) \cup Range(LowerLetters) \cup {"_"}
    /\ \A i \in 2..Len(value) :
        value[i] \in Range(UpperLetters) \cup Range(LowerLetters) \cup Range(Digits) \cup {"_"}

\* one or more segments, each a '/' followed by an identifier
IsCatalogPath(value) ==
    /\ Len(value) >= 1
    /\ value[1] = "/"
    /\ \E cuts \in SUBSET (1..Len(value)) :
        /\ 1 \in cuts
        /\ \A i \in cuts :
            LET next == IF \E j \in cuts : j > i
                        THEN CHOOSE j \in cuts : j > i /\ \A k \in cuts : k > i => k >= j
                        ELSE Len(value) + 1
            IN  value[i] = "/" /\ IsIdentifier(SubSeq(value, i + 1, next - 1))

\* C21 (as claimed): ResourceCatalog(id) succeeds if and only if id is one or
\* more segments, each a '/' followed by a letter or underscore and any number
\* of letters, digits or underscores, and nothing else.
C21_CatalogIdGrammar ==
    (Done("ResourceCatalog") /\ data_model.args.resources = None) =>
        (~is_raised(data_model.result) <=> IsCatalogPath(data_model.args.id.chars))

\* C22 (as claimed): Resource(id) succeeds if and only if id is a letter or
\* underscore followed by any number of ASCII letters, digits or underscores
\* and nothing else; the keys of the parameters of a Representation obey the
\* same grammar.
C22_ResourceIdGrammar ==
    /\ (Done("Resource") /\ data_model.args.representations = None) =>
        (~is_raised(data_model.result) <=> IsIdentifier(data_model.args.id.chars))
    /\ (/\ Done("Representation")
        /\ data_model.args.data_type.v \in _nexus_data_type_values
        /\ ~timedelta_le(data_model.args.sample_period, timedelta(0, 0, 0, 0, 0))
        /\ data_model.args.parameters # None) =>
            (~is_raised(data_model.result) <=>
                \A i \in 1..Len(data_model.args.parameters.items) :
                    IsIdentifier(data_model.args.parameters.items[i][1]))

Distinct(ids) == \A i, j \in 1..Len(ids) : i # j => ids[i] # ids[j]

\* C23: the construction of a ResourceCatalog with a valid id fails with
\* "There are multiple resources with the same identifier." if two resources
\* of its list have the same id, and of a Resource with a valid id fails with
\* "There are multiple representations with the same identifier." if two
\* representations of its list have the same id, as two of the same sample
\* period have; with pairwise distinct ids the construction succeeds and the
\* instance has the list.
C23_DuplicateIdsRejected ==
    /\ (/\ Done("ResourceCatalog")
        /\ data_model.args.resources # None
        /\ IsCatalogPath(data_model.args.id.chars)) =>
            LET resources == data_model.args.resources.items
                ids == [i \in 1..Len(resources) |-> resources[i].id]
            IN  IF Distinct(ids)
                THEN /\ ~is_raised(data_model.result)
                     /\ data_model.result.resources = data_model.args.resources
                ELSE data_model.result =
                        Exception("There are multiple resources with the same identifier.")
    /\ (/\ Done("Resource")
        /\ data_model.args.representations # None
        /\ IsIdentifier(data_model.args.id.chars)) =>
            LET representations == data_model.args.representations.items
                ids == [i \in 1..Len(representations) |-> Representation_id(representations[i])]
                periods == [i \in 1..Len(representations) |-> representations[i].sample_period]
            IN  /\ IF Distinct(ids)
                   THEN /\ ~is_raised(data_model.result)
                        /\ data_model.result.representations = data_model.args.representations
                   ELSE data_model.result =
                            Exception("There are multiple representations with the same identifier.")
                /\ ~Distinct(periods) => is_raised(data_model.result)

\* a catalog of R1, R2 and R2 again, rejected
C23_Witness ==
    /\ Done("ResourceCatalog")
    /\ data_model.args.resources # None
    /\ Len(data_model.args.resources.items) = 3
    /\ data_model.args.resources.items[1].id = Text(<<"R", "1">>)
    /\ data_model.args.resources.items[2] = data_model.args.resources.items[3]
    /\ data_model.args.id = Text(<<"/", "A", "/", "B">>)
    /\ data_model.result =
            Exception("There are multiple resources with the same identifier.")

\* the unit string of n microseconds: the largest of us, ms, s and min that
\* divides n, and the multiple
UnitString(n) ==
    IF n % 1000 # 0 THEN str(n) \o <<"_", "u", "s">>
    ELSE IF (n \div 1000) % 1000 # 0 THEN str(n \div 1000) \o <<"_", "m", "s">>
    ELSE IF (n \div 1000000) % 60 # 0 THEN str(n \div 1000000) \o <<"_", "s">>
    ELSE str(n \div 60000000) \o <<"_", "m", "i", "n">>
InMicroseconds(period) ==
    (period.days * 86400 + period.seconds) * 1000000 + period.microseconds

\* C24 (as claimed): for a positive sample period of n whole microseconds
\* to_unit_string returns "<v>_<unit>" with the largest unit of us, ms, s,
\* min of which the period is an integer multiple, and v that multiple; so
\* two representations of different sample periods have different ids, and a
\* Resource of them is constructed.
C24_UnitString ==
    /\ Done("to_unit_string") =>
        data_model.result = Text(UnitString(InMicroseconds(data_model.args.sample_period)))
    /\ (/\ Done("Resource")
        /\ data_model.args.representations # None
        /\ IsIdentifier(data_model.args.id.chars)) =>
            LET representations == data_model.args.representations.items
                periods == [i \in 1..Len(representations) |-> representations[i].sample_period]
            IN  Distinct(periods) => ~is_raised(data_model.result)

\* what a built instance is now: its fields with the objects they refer to
Now(m, instance) ==
    IF instance.t = "ResourceCatalog"
    THEN [instance EXCEPT !.properties = Deref(m.heap, @),
                          !.resources = Deref(m.heap, @)]
    ELSE [instance EXCEPT !.properties = Deref(m.heap, @),
                          !.representations = Deref(m.heap, @)]
ChildIds(value) ==
    IF value.t = "ResourceCatalog"
    THEN IF value.resources = None THEN <<>>
         ELSE [i \in 1..Len(value.resources.items) |-> value.resources.items[i].id]
    ELSE IF value.representations = None THEN <<>>
         ELSE [i \in 1..Len(value.representations.items) |->
                    Representation_id(value.representations.items[i])]

\* C26 (as claimed): an instance returned by the build() of a builder is never
\* changed afterwards: after any later calls of the builder it has the
\* properties and the resources (representations) it had when it was built,
\* and their ids are pairwise distinct.
C26_BuiltIsNotChanged ==
    data_model.pc = "builder" =>
        \A i \in 1..Len(data_model.built) :
            /\ Now(data_model, data_model.built[i]) = data_model.when_built[i]
            /\ Distinct(ChildIds(Now(data_model, data_model.built[i])))

\* C30 (as claimed): to_path returns the catalog id, '/', the resource id,
\* '/', the representation id, followed by "(k1=v1,k2=v2,...)" in insertion
\* order when parameters are present and by nothing when parameters is None.
C30_PathOfItem ==
    Done("to_path") =>
        LET self == data_model.args.self
            head == self.catalog.id.chars \o <<"/">> \o self.resource.id.chars
                        \o <<"/">> \o to_unit_string(self.representation.sample_period)
        IN  data_model.result =
                Text(IF self.parameters = None THEN head
                     ELSE head \o _get_representation_parameter_string(self.parameters).chars)

====
